---- MODULE Spec2Model ----
(***************************************************************************)
(* A model of the SMEL schema-migration toolkit: the Unified Meta Schema   *)
(* (Schema/unified_meta_schema.py), the relational adapter                 *)
(* (Schema/adapters/postgresql_adapter.py), the document adapter           *)
(* (Schema/adapters/mongodb_adapter.py) and the transformation engine      *)
(* described in spec.md, section 4.4.                                      *)
(*                                                                         *)
(* The module holds several state machines, one per part of the program.   *)
(* Each has its own variables and its own specification; a specification   *)
(* keeps the variables of the other machines at the value Idle.            *)
(*                                                                         *)
(*   SortSpec    PostgreSQLAdapter._sort_entities_by_dependency            *)
(*   ImportSpec  PostgreSQLAdapter.parse                                   *)
(*   SchemaSpec  the mutation primitives and the serialization of the      *)
(*               Unified Meta Schema                                       *)
(*   EngineSpec  the transformation engine                                 *)
(*   RegistrySpec   Database: entity types, relationship types, version    *)
(*   TypeSpec       DataType.to_native                                     *)
(*   LoadSpec       Database.from_dict                                     *)
(*   DocSpec        MongoDBAdapter.parse                                   *)
(*   RoundTripSpec  PostgreSQLAdapter.parse, then export_to_sql            *)
(*   CardSpec       Cardinality and the relationships that carry it        *)
(*   TypeNameSpec   type names on import and in Database.from_dict         *)
(*   SplitSpec      PostgreSQLAdapter._split_columns                       *)
(*   ExecSpec       execute_smel (inspect_meta.py)                         *)
(*   JsonExportSpec MongoDBAdapter.export_to_json                          *)
(***************************************************************************)
EXTENDS Integers, Sequences, FiniteSets, TLC

VARIABLES
    \* ---- dependency sort (postgresql_adapter.py, 432-473) ----
    entity_rels,      \* database.entity_types[e].relationships, as a set per entity
    sort_pc,          \* "build" | "loop" | "done"
    dependencies,     \* the dict entity name -> set of names it depends on
    visited,          \* the set visited
    sorted_names,     \* the list sorted_names
    call_stack,       \* the frames of visit(): [name, todo]
    loop_pos,         \* position of "for name in dependencies"
    sorted_entities,  \* the list returned
    \* ---- relational import (postgresql_adapter.py, 62-372) ----
    ddl_tables,          \* the (table_name, table_body) pairs _extract_create_tables returns
    imp_pc,              \* "parse" | "resolve" | "done"
    table_pos,           \* position of "for table_name, table_body in tables"
    imp_entity_types,    \* self.database.entity_types
    pending_references,  \* self._pending_references
    pending_pos,         \* position of the loop of _resolve_references
    \* ---- Unified Meta Schema objects (unified_meta_schema.py) ----
    attr_objects,        \* the Attribute objects created so far; an index is an identity
    entity_types,        \* Database.entity_types: name -> EntityType
    \* ---- transformation engine (spec.md, section 4.4) ----
    source_model,        \* the model the engine was given
    program,             \* the operation list
    op_index,            \* index of the next operation, from 0
    engine_state,        \* "RUNNING" | "FAILED"
    model,               \* the model under transformation
    diagnostics,         \* the diagnostics recorded so far
    applied,             \* history: the indices of the operations applied, in order
    \* ---- the registries and the version counter of Database (unified_meta_schema.py, 451-482) ----
    version,             \* Database.version
    reg_entity_types,    \* the names registered in Database.entity_types
    relationship_types,  \* the names registered in Database.relationship_types
    \* ---- DataType.to_native (unified_meta_schema.py, 88-198) ----
    dtype,               \* the DataType object
    paradigm,            \* the DatabaseType passed as db
    native,              \* what to_native returned: <<>> before the call, <<spelling>> after
    \* ---- Database.from_dict on a hand-written dictionary (unified_meta_schema.py, 499-584) ----
    load_data,           \* the dictionary passed to from_dict
    load_result,         \* <<>> before the call, <<the Database built>> after
    \* ---- document import: MongoDBAdapter.parse (mongodb_adapter.py, 45-201) ----
    doc_schema,          \* the JSON Schema passed to parse
    doc_database,        \* <<>> before the call, <<self.database>> after
    \* ---- relational export: PostgreSQLAdapter.export_to_sql (postgresql_adapter.py, 400-623) ----
    exported_ddl,        \* <<>> before export_to_sql, <<the tables it describes>> after
    \* ---- Cardinality (unified_meta_schema.py, 59-81) on the relationships made so far ----
    rel_made,            \* the Relationship objects constructed so far, with what their accessors return
    \* ---- type names met by import and deserialization ----
    named_type,          \* the type as the input names it, and the route it comes by
    parsed_type,         \* what the route made of it; <<>> before the call
    \* ---- _split_columns (postgresql_adapter.py, 223-255) ----
    split_body,          \* the argument body, a list of characters
    split_result,        \* the list returned, in a one-element list; <<>> before the return
    \* ---- execute_smel (inspect_meta.py, 40-56) ----
    exec_db,             \* the Database object db handed to execute_smel
    exec_pc,             \* "parse" | "parsed" | "returned"
    exec_parsed,         \* what main.parse_smel returned: [operations, errors]
    exec_executed,       \* the operations handed to transformer.execute, <<>> while it has not run
    exec_returned,       \* the Database returned, in a one-element list
    \* ---- document export: MongoDBAdapter.export_to_json (mongodb_adapter.py, 222-325) ----
    json_database,       \* database.entity_types: name -> EntityType
    json_root,           \* the argument root_entity_name; <<>> is None
    json_pc,             \* "call" | "run" | "done" | "raised"
    json_stack,          \* the open calls of _export_entity_to_schema: [entity, pos, schema]
    json_result          \* <<>>, then <<the schema returned>> or <<the exception raised>>

sortVars == <<entity_rels, sort_pc, dependencies, visited, sorted_names,
              call_stack, loop_pos, sorted_entities>>

importVars == <<ddl_tables, imp_pc, table_pos, imp_entity_types, pending_references,
                pending_pos>>

schemaVars == <<attr_objects, entity_types>>

engineVars == <<source_model, program, op_index, engine_state, model, diagnostics, applied>>

registryVars == <<version, reg_entity_types, relationship_types>>

typeVars == <<dtype, paradigm, native>>

loadVars == <<load_data, load_result>>

docVars == <<doc_schema, doc_database>>

exportVars == <<exported_ddl>>

cardVars == <<rel_made>>

typeNameVars == <<named_type, parsed_type>>

splitVars == <<split_body, split_result>>

execVars == <<exec_db, exec_pc, exec_parsed, exec_executed, exec_returned>>

jsonExportVars == <<json_database, json_root, json_pc, json_stack, json_result>>

vars == <<sortVars, importVars, schemaVars, engineVars, registryVars, typeVars, loadVars, docVars, exportVars, cardVars, typeNameVars, splitVars, execVars, jsonExportVars>>

\* What each machine leaves alone: the variables of the others.
otherThanSort == <<importVars, schemaVars, engineVars, registryVars, typeVars, loadVars, docVars, exportVars, cardVars, typeNameVars, splitVars, execVars, jsonExportVars>>
otherThanImport == <<sortVars, schemaVars, engineVars, registryVars, typeVars, loadVars, docVars, exportVars, cardVars, typeNameVars, splitVars, execVars, jsonExportVars>>
otherThanSchema == <<sortVars, importVars, engineVars, registryVars, typeVars, loadVars, docVars, exportVars, cardVars, typeNameVars, splitVars, execVars, jsonExportVars>>
otherThanEngine == <<sortVars, importVars, schemaVars, registryVars, typeVars, loadVars, docVars, exportVars, cardVars, typeNameVars, splitVars, execVars, jsonExportVars>>
otherThanRegistry == <<sortVars, importVars, schemaVars, engineVars, typeVars, loadVars, docVars, exportVars, cardVars, typeNameVars, splitVars, execVars, jsonExportVars>>
otherThanType == <<sortVars, importVars, schemaVars, engineVars, registryVars, loadVars, docVars, exportVars, cardVars, typeNameVars, splitVars, execVars, jsonExportVars>>
otherThanLoad == <<sortVars, importVars, schemaVars, engineVars, registryVars, typeVars, docVars, exportVars, cardVars, typeNameVars, splitVars, execVars, jsonExportVars>>
otherThanDoc == <<sortVars, importVars, schemaVars, engineVars, registryVars, typeVars, loadVars, exportVars, cardVars, typeNameVars, splitVars, execVars, jsonExportVars>>
otherThanExport == <<sortVars, importVars, schemaVars, engineVars, registryVars, typeVars, loadVars, docVars, cardVars, typeNameVars, splitVars, execVars, jsonExportVars>>
otherThanCard == <<sortVars, importVars, schemaVars, engineVars, registryVars, typeVars, loadVars, docVars, exportVars, typeNameVars, splitVars, execVars, jsonExportVars>>
otherThanTypeName == <<sortVars, importVars, schemaVars, engineVars, registryVars, typeVars, loadVars, docVars, exportVars, cardVars, splitVars, execVars, jsonExportVars>>
otherThanSplit == <<sortVars, importVars, schemaVars, engineVars, registryVars, typeVars, loadVars, docVars, exportVars, cardVars, typeNameVars, execVars, jsonExportVars>>
otherThanExec == <<sortVars, importVars, schemaVars, engineVars, registryVars, typeVars, loadVars, docVars, exportVars, cardVars, typeNameVars, splitVars, jsonExportVars>>
otherThanJsonExport == <<sortVars, importVars, schemaVars, engineVars, registryVars, typeVars, loadVars, docVars, exportVars, cardVars, typeNameVars, splitVars, execVars>>

Idle == "idle"

SortIdle ==
    /\ entity_rels = Idle /\ sort_pc = Idle /\ dependencies = Idle /\ visited = Idle
    /\ sorted_names = Idle /\ call_stack = Idle /\ loop_pos = Idle /\ sorted_entities = Idle

ImportIdle ==
    /\ ddl_tables = Idle /\ imp_pc = Idle /\ table_pos = Idle /\ imp_entity_types = Idle
    /\ pending_references = Idle /\ pending_pos = Idle

SchemaIdle == attr_objects = Idle /\ entity_types = Idle

EngineIdle ==
    /\ source_model = Idle /\ program = Idle /\ op_index = Idle /\ engine_state = Idle
    /\ model = Idle /\ diagnostics = Idle /\ applied = Idle

RegistryIdle == version = Idle /\ reg_entity_types = Idle /\ relationship_types = Idle

TypeIdle == dtype = Idle /\ paradigm = Idle /\ native = Idle

LoadIdle == load_data = Idle /\ load_result = Idle

DocIdle == doc_schema = Idle /\ doc_database = Idle

ExportIdle == exported_ddl = Idle

CardIdle == rel_made = Idle

TypeNameIdle == named_type = Idle /\ parsed_type = Idle

SplitIdle == split_body = Idle /\ split_result = Idle

ExecIdle == exec_db = Idle /\ exec_pc = Idle /\ exec_parsed = Idle /\ exec_executed = Idle /\ exec_returned = Idle

JsonExportIdle == json_database = Idle /\ json_root = Idle /\ json_pc = Idle /\ json_stack = Idle /\ json_result = Idle

(***************************************************************************)
(* General helpers.                                                        *)
(***************************************************************************)
Range(s) == {s[i] : i \in 1..Len(s)}

\* The position of the first occurrence of x in s (0 when absent).
IndexOf(s, x) ==
    IF x \in Range(s) THEN CHOOSE i \in 1..Len(s) : s[i] = x /\ \A j \in 1..(i-1) : s[j] # x
    ELSE 0

\* How many times x occurs in s.
Occurrences(s, x) == Cardinality({i \in 1..Len(s) : s[i] = x})

(***************************************************************************)
(* DEPENDENCY SORT                                                         *)
(***************************************************************************)

\* The entities of the database, in the insertion order of database.entity_types.
EntityOrder == <<"person", "address", "orders">>
SortEntityNames == Range(EntityOrder)

\* A relationship target that names no entity of the database.
GhostEntity == "ghost"
RelTargets == SortEntityNames \cup {GhostEntity}
RelKinds == {"reference", "aggregate"}

\* The most relationships the database under sort holds in all.
MaxRels == 3

CountRels(rels) ==
    Cardinality(UNION {{<<e, r>> : r \in rels[e]} : e \in SortEntityNames})

\* The set deps built for one entity: the targets of its References, itself excluded.
DependsOnReversed(e, rels) ==
    {o \in SortEntityNames \ {e} :
        \E r \in rels[o] : r.kind = "reference" /\ r.target = e}

DependsOn(e, rels) ==
    {r.target : r \in {q \in rels[e] : q.kind = "reference" /\ q.target # e}}

\* "if name in visited: return"
AlreadyVisited(name, vis) == name \in vis

\* visit(name) marking nothing on entry.
VisitWithoutMark(name, vis, stack) ==
    IF AlreadyVisited(name, vis)
    THEN [visited |-> vis, call_stack |-> stack]
    ELSE [visited |-> vis,
          call_stack |-> Append(stack,
              [name |-> name,
               todo |-> IF name \in DOMAIN dependencies THEN dependencies[name] ELSE {}])]

\* The call visit(name): returns at once on a visited name, else marks it and
\* opens a frame that iterates over dependencies.get(name, []).
Visit(name, vis, stack) ==
    IF AlreadyVisited(name, vis)
    THEN [visited |-> vis, call_stack |-> stack]
    ELSE [visited |-> vis \cup {name},
          call_stack |-> Append(stack,
              [name |-> name,
               todo |-> IF name \in DOMAIN dependencies THEN dependencies[name] ELSE {}])]

SortInit ==
    /\ entity_rels = [e \in SortEntityNames |-> {}]
    /\ sort_pc = "build"
    /\ dependencies = [e \in {} |-> {}]
    /\ visited = {}
    /\ sorted_names = <<>>
    /\ call_stack = <<>>
    /\ loop_pos = 1
    /\ sorted_entities = <<>>
    \* the other machines are not running
    /\ ImportIdle /\ SchemaIdle /\ EngineIdle /\ RegistryIdle /\ TypeIdle /\ LoadIdle /\ DocIdle /\ ExportIdle /\ CardIdle /\ TypeNameIdle /\ SplitIdle /\ ExecIdle /\ JsonExportIdle

\* EntityType.add_relationship on an entity of the database, before the export.
SortAddRelationship(e, kind, target) ==
    /\ sort_pc = "build"
    /\ CountRels(entity_rels) < MaxRels
    /\ [kind |-> kind, target |-> target] \notin entity_rels[e]
    /\ entity_rels' = [entity_rels EXCEPT ![e] = @ \cup {[kind |-> kind, target |-> target]}]
    /\ UNCHANGED <<sort_pc, dependencies, visited, sorted_names, call_stack,
                   loop_pos, sorted_entities>>
    /\ UNCHANGED otherThanSort

\* _sort_entities_by_dependency up to the loop: builds the dict dependencies.
SortStart ==
    /\ sort_pc = "build"
    /\ dependencies' = [e \in SortEntityNames |-> DependsOn(e, entity_rels)]
    /\ sort_pc' = "loop"
    /\ visited' = {}
    /\ sorted_names' = <<>>
    /\ UNCHANGED <<entity_rels, call_stack, loop_pos, sorted_entities>>
    /\ UNCHANGED otherThanSort

\* One turn of "for name in dependencies: visit(name)".
SortLoopNoCheck ==
    /\ sort_pc = "loop"
    /\ call_stack = <<>>
    /\ loop_pos <= Len(EntityOrder)
    /\ visited' = visited \cup {EntityOrder[loop_pos]}
    /\ call_stack' = <<[name |-> EntityOrder[loop_pos],
                        todo |-> dependencies[EntityOrder[loop_pos]]]>>
    /\ loop_pos' = loop_pos + 1
    /\ UNCHANGED <<entity_rels, sort_pc, dependencies, sorted_names, sorted_entities>>
    /\ UNCHANGED otherThanSort

SortLoop ==
    /\ sort_pc = "loop"
    /\ call_stack = <<>>
    /\ loop_pos <= Len(EntityOrder)
    /\ LET r == Visit(EntityOrder[loop_pos], visited, call_stack)
       IN  /\ visited' = r.visited
           /\ call_stack' = r.call_stack
    /\ loop_pos' = loop_pos + 1
    /\ UNCHANGED <<entity_rels, sort_pc, dependencies, sorted_names, sorted_entities>>
    /\ UNCHANGED otherThanSort

\* One turn of "for dep in dependencies.get(name, [])" in the innermost frame.
\* The iteration order of a Python set is not fixed: any remaining dep may be next.
SortVisitDep ==
    /\ sort_pc = "loop"
    /\ call_stack # <<>>
    /\ LET n   == Len(call_stack)
           top == call_stack[n]
       IN  /\ top.todo # {}
           /\ \E dep \in top.todo :
                LET rest == [call_stack EXCEPT ![n].todo = @ \ {dep}]
                    r    == IF dep \in DOMAIN dependencies
                            THEN Visit(dep, visited, rest)
                            ELSE [visited |-> visited, call_stack |-> rest]
                IN  /\ visited' = r.visited
                    /\ call_stack' = r.call_stack
    /\ UNCHANGED <<entity_rels, sort_pc, dependencies, sorted_names, loop_pos,
                   sorted_entities>>
    /\ UNCHANGED otherThanSort

\* The end of visit(name): "sorted_names.append(name)".
SortReturn ==
    /\ sort_pc = "loop"
    /\ call_stack # <<>>
    /\ call_stack[Len(call_stack)].todo = {}
    /\ sorted_names' = Append(sorted_names, call_stack[Len(call_stack)].name)
    /\ call_stack' = SubSeq(call_stack, 1, Len(call_stack) - 1)
    /\ UNCHANGED <<entity_rels, sort_pc, dependencies, visited, loop_pos, sorted_entities>>
    /\ UNCHANGED otherThanSort

\* The return: the entities of sorted_names that the database holds.
SortFinish ==
    /\ sort_pc = "loop"
    /\ call_stack = <<>>
    /\ loop_pos > Len(EntityOrder)
    /\ sorted_entities' = SelectSeq(sorted_names, LAMBDA n : n \in SortEntityNames)
    /\ sort_pc' = "done"
    /\ UNCHANGED <<entity_rels, dependencies, visited, sorted_names, call_stack, loop_pos>>
    /\ UNCHANGED otherThanSort

SortRun == SortLoop \/ SortVisitDep \/ SortReturn \/ SortFinish

SortNext ==
    \/ \E e \in SortEntityNames, k \in RelKinds, t \in RelTargets :
          SortAddRelationship(e, k, t)
    \/ SortStart
    \/ SortLoop
    \/ SortVisitDep
    \/ SortReturn
    \/ SortFinish

\* The sort is a sequential computation: once called it keeps running.
SortSpec == SortInit /\ [][SortNext]_vars /\ WF_vars(SortRun)

(***************************************************************************)
(* Claims about the dependency sort.                                       *)
(***************************************************************************)

\* The "depends on" edges between entities of the database, self-references excluded.
RefEdges ==
    {<<e, t>> \in SortEntityNames \X SortEntityNames :
        e # t /\ [kind |-> "reference", target |-> t] \in entity_rels[e]}

RECURSIVE PathsWithin(_, _)
PathsWithin(R, n) ==
    IF n = 0 THEN R
    ELSE LET S == PathsWithin(R, n - 1)
         IN  S \cup {<<a, c>> \in SortEntityNames \X SortEntityNames :
                        \E b \in SortEntityNames : <<a, b>> \in S /\ <<b, c>> \in S}

AcyclicApartFromSelf ==
    \A e \in SortEntityNames : <<e, e>> \notin PathsWithin(RefEdges, Len(EntityOrder))

\* C6: for a reference graph that is acyclic apart from self-references, the order
\* returned by the dependency sort places each referenced entity strictly before
\* every other entity that holds a Reference to it.
C6_ReferencedFirst ==
    (sort_pc = "done" /\ AcyclicApartFromSelf) =>
        \A <<e, t>> \in RefEdges :
            /\ IndexOf(sorted_entities, t) > 0
            /\ IndexOf(sorted_entities, e) > 0
            /\ IndexOf(sorted_entities, t) < IndexOf(sorted_entities, e)

\* A finished sort of an acyclic graph that holds a self-reference and a Reference
\* from an entity to one that comes later in the database's own order.
C6_Witness ==
    /\ sort_pc = "done"
    /\ AcyclicApartFromSelf
    /\ \E e \in SortEntityNames : [kind |-> "reference", target |-> e] \in entity_rels[e]
    /\ \E <<e, t>> \in RefEdges : IndexOf(EntityOrder, e) < IndexOf(EntityOrder, t)

\* C7: for every reference graph (mutual references, longer cycles, self-references,
\* References to entities that do not exist) the dependency sort, once called,
\* terminates, and it returns every entity of the database exactly once.
C7_TerminatesWithEveryEntityOnce ==
    /\ [](sort_pc = "loop" => <>(sort_pc = "done"))
    /\ [](sort_pc = "done" =>
            /\ Range(sorted_entities) = SortEntityNames
            /\ \A e \in SortEntityNames : Occurrences(sorted_entities, e) = 1)

\* A finished sort of a graph with a mutual reference and a Reference to a missing entity.
C7_Witness ==
    /\ sort_pc = "done"
    /\ \E <<e, t>> \in RefEdges : <<t, e>> \in RefEdges
    /\ \E e \in SortEntityNames :
          [kind |-> "reference", target |-> GhostEntity] \in entity_rels[e]
    /\ Len(sorted_entities) = Len(EntityOrder)

(***************************************************************************)
(* RELATIONAL IMPORT                                                       *)
(*                                                                         *)
(* The input is the list of CREATE TABLE statements the adapter's patterns *)
(* recognise. A table body is held as the list of its comma-separated      *)
(* pieces; a piece is held by what the adapter reads from it:              *)
(*   piece        "column", or "constraint" for a piece that starts with   *)
(*                PRIMARY KEY, FOREIGN KEY, UNIQUE, CHECK or CONSTRAINT     *)
(*   name, type   the identifiers matched by the pattern of _parse_column  *)
(*   primary_key  the text holds PRIMARY KEY                               *)
(*   not_null     the text holds NOT NULL                                  *)
(*   references   the table named by REFERENCES table(column), or NoRef    *)
(***************************************************************************)

NoRef == "<none>"

\* The tables a schema may declare, as written. PostgreSQL folds unquoted
\* identifiers to lower case, so the names of a schema differ in lower case.
TableIdents == {"Person", "address", "ORDERS"}

\* The table names a REFERENCES clause may spell; "ghost" is never declared.
RefSpellings == {"PERSON", "address", "orders", "ghost"}

\* str.lower() on the identifiers of the model.
Lower(s) ==
    CASE s \in {"Person", "PERSON", "person"}    -> "person"
      [] s \in {"ORDERS", "orders"}              -> "orders"
      [] s \in {"Person_Id", "person_id"}        -> "person_id"
      [] s \in {"Address_Id", "address_id"}      -> "address_id"
      [] s \in {"Orders_Id", "orders_id"}        -> "orders_id"
      [] s \in {"Ghost_Id", "ghost_id"}          -> "ghost_id"
      [] s \in {"ID", "id"}                      -> "id"
      [] OTHER                                   -> s

\* The most columns with a REFERENCES clause a schema holds in all.
MaxRefClauses == 2

RECURSIVE SubsetsUpTo(_, _)
SubsetsUpTo(U, k) ==
    IF k = 0 THEN {{}}
    ELSE LET P == SubsetsUpTo(U, k - 1)
         IN  P \cup {s \cup {x} : s \in P, x \in U}

RECURSIVE DistinctSeqs(_, _)
DistinctSeqs(S, n) ==
    IF n = 0 THEN {<<>>}
    ELSE LET P == DistinctSeqs(S, n - 1)
         IN  P \cup UNION {{Append(p, x) : x \in S \ Range(p)} : p \in P}

\* The column that carries a REFERENCES clause to `target`, as written.
FkColumnName(target) ==
    CASE target = "PERSON"  -> "Person_Id"
      [] target = "address" -> "address_id"
      [] target = "orders"  -> "Orders_Id"
      [] OTHER              -> "Ghost_Id"

FkSlots ==
    <<[target |-> "PERSON", not_null |-> FALSE], [target |-> "PERSON", not_null |-> TRUE],
      [target |-> "address", not_null |-> FALSE], [target |-> "address", not_null |-> TRUE],
      [target |-> "orders", not_null |-> FALSE], [target |-> "orders", not_null |-> TRUE],
      [target |-> "ghost", not_null |-> FALSE], [target |-> "ghost", not_null |-> TRUE]>>

FkClauses == [src : TableIdents, target : RefSpellings, not_null : BOOLEAN]

ColumnPiece(name, type, pk, nn, ref) ==
    [piece |-> "column", name |-> name, type |-> type, primary_key |-> pk,
     not_null |-> nn, references |-> ref]

\* The body of table `ident` in a schema whose REFERENCES columns are `fks`:
\* an id column (address declares it SERIAL without PRIMARY KEY), the columns
\* with a REFERENCES clause and, for ORDERS, a table-level FOREIGN KEY.
TableBody(ident, fks) ==
    LET mine == SelectSeq(FkSlots, LAMBDA s :
                    [src |-> ident, target |-> s.target, not_null |-> s.not_null] \in fks)
        cols == [i \in 1..Len(mine) |->
                    ColumnPiece(FkColumnName(mine[i].target), "INTEGER", FALSE,
                                mine[i].not_null, mine[i].target)]
    IN  <<ColumnPiece("ID", "SERIAL", ident # "address", FALSE, NoRef)>>
        \o cols
        \o (IF ident = "ORDERS"
            THEN <<[piece |-> "constraint", name |-> "FOREIGN", type |-> "KEY",
                    primary_key |-> FALSE, not_null |-> FALSE, references |-> "Person"]>>
            ELSE <<>>)

Schemas ==
    {[i \in 1..Len(order) |-> [table_name |-> order[i], table_body |-> TableBody(order[i], fks)]] :
        order \in DistinctSeqs(TableIdents, Cardinality(TableIdents)),
        fks \in SubsetsUpTo(FkClauses, MaxRefClauses)}

\* TYPE_MAP.get(type_name, PrimitiveType.STRING), for the SQL types of the module's
\* own examples.
PostgresTypeMap(type_name) ==
    CASE type_name \in {"INTEGER", "SERIAL"} -> "integer"
      [] type_name = "DECIMAL" -> "decimal"
      [] type_name = "VARCHAR" -> "string"
      [] OTHER -> "string"

\* PrimitiveDataType (unified_meta_schema.py, 141-147); `kind` stands for the class
\* of the object.  max_length, precision and scale are Optional[int]: <<>> is None.
PrimitiveDataType(primitive_type, max_length, precision, scale) ==
    [kind |-> "primitive", primitive_type |-> primitive_type, max_length |-> max_length,
     precision |-> precision, scale |-> scale]

\* A text is the list of its characters.
DecimalDigits == <<"0", "1", "2", "3", "4", "5", "6", "7", "8", "9">>

DigitValue(ch) == (CHOOSE d \in 1..10 : DecimalDigits[d] = ch) - 1

\* Whether int(text) returns: the text is a non-empty run of digits.
IsInt(text) == text # <<>> /\ \A i \in 1..Len(text) : text[i] \in Range(DecimalDigits)

\* int(text)
RECURSIVE ToInt(_)
ToInt(text) ==
    IF Len(text) = 1 THEN DigitValue(text[1])
    ELSE 10 * ToInt(SubSeq(text, 1, Len(text) - 1)) + DigitValue(text[Len(text)])

\* str(n), n >= 0
RECURSIVE Str(_)
Str(n) == IF n < 10 THEN <<DecimalDigits[n + 1]>> ELSE Str(n \div 10) \o <<DecimalDigits[(n % 10) + 1]>>

\* An exception leaving a call.
Raised(exception) == [raised |-> exception]
HasRaised(result) == "raised" \in DOMAIN result

\* _parse_data_type.  params is the list of the texts between the parentheses,
\* split at the commas and stripped (empty when there are no parentheses); a
\* part that int() does not take raises ValueError.
ParseDataType(type_name, params) ==
    LET primitive == PostgresTypeMap(type_name)
    IN  IF params = <<>> THEN PrimitiveDataType(primitive, <<>>, <<>>, <<>>)
        ELSE IF primitive \in {"string", "text"}
        THEN IF ~IsInt(params[1]) THEN Raised("ValueError")
             ELSE PrimitiveDataType(primitive, <<ToInt(params[1])>>, <<>>, <<>>)
        ELSE IF primitive = "decimal"
        THEN IF ~IsInt(params[1]) \/ (Len(params) > 1 /\ ~IsInt(params[2]))
             THEN Raised("ValueError")
             ELSE PrimitiveDataType(primitive, <<>>, <<ToInt(params[1])>>,
                                    IF Len(params) > 1 THEN <<ToInt(params[2])>> ELSE <<0>>)
        ELSE PrimitiveDataType(primitive, <<>>, <<>>, <<>>)

\* match.group(3) of a column piece: the parameters of its type, if it has any.
TypeParams(col) == IF "type_params" \in DOMAIN col THEN col.type_params ELSE <<>>

\* _parse_column: the Attribute and the ref_info of one column definition.
ParseColumn(col) ==
    LET is_key == col.primary_key \/ col.type \in {"SERIAL", "BIGSERIAL"}
    IN  IF HasRaised(ParseDataType(col.type, TypeParams(col)))
        THEN ParseDataType(col.type, TypeParams(col))
        ELSE
        [attr |-> [attr_name |-> Lower(col.name), sql_type |-> col.type,
                   data_type |-> ParseDataType(col.type, TypeParams(col)),
                   is_key |-> is_key, is_optional |-> (~col.not_null) /\ ~is_key],
         ref_info |-> IF col.references = NoRef THEN NoRef
                      ELSE <<Lower(col.name), Lower(col.references)>>]

PrimaryKeyOn(attr) ==
    [is_primary_key |-> TRUE, is_managed |-> TRUE, unique_properties |-> <<attr.attr_name>>]

\* The loop of _parse_table over the pieces of the body, from piece i on.
RECURSIVE ParsePieces(_, _, _)
ParsePieces(body, i, acc) ==
    IF i > Len(body) THEN acc
    ELSE IF body[i].piece # "column" THEN ParsePieces(body, i + 1, acc)
    ELSE LET r == ParseColumn(body[i])
         IN  ParsePieces(body, i + 1,
                [entity |-> [acc.entity EXCEPT
                                !.attributes = Append(@, r.attr),
                                !.constraints = IF body[i].primary_key
                                                THEN Append(@, PrimaryKeyOn(r.attr)) ELSE @],
                 pending |-> IF r.ref_info = NoRef THEN acc.pending
                             ELSE Append(acc.pending,
                                         <<acc.entity.name, r.ref_info[1], r.ref_info[2]>>)])

\* _parse_table: the EntityType of one CREATE TABLE and the references it leaves pending.
ParseTable(table_name, table_body) ==
    LET start  == [entity |-> [name |-> Lower(table_name), attributes |-> <<>>,
                               constraints |-> <<>>, relationships |-> <<>>],
                   pending |-> <<>>]
        parsed == ParsePieces(table_body, 1, start)
        keys   == SelectSeq(parsed.entity.attributes, LAMBDA a : a.is_key)
    IN  IF parsed.entity.constraints = <<>> /\ keys # <<>>
        THEN [parsed EXCEPT !.entity.constraints = <<PrimaryKeyOn(keys[1])>>]
        ELSE parsed

\* EntityType.get_attribute: the attributes of that name, in order; the first
\* is the one found, the empty list stands for None.
ImpGetAttribute(entity, name) ==
    SelectSeq(entity.attributes, LAMBDA a : a.attr_name = name)

\* _resolve_references creating the Reference whenever the source exists.
ResolveReferenceUnchecked(entities, p) ==
    IF p[1] \in DOMAIN entities
    THEN [entities EXCEPT ![p[1]].relationships =
            Append(@, [kind |-> "reference", ref_name |-> p[2], refs_to |-> p[3],
                       cardinality |-> "&", is_optional |-> TRUE])]
    ELSE entities

\* One turn of the loop of _resolve_references on the pending tuple p.
ResolveReference(entities, p) ==
    IF p[1] \in DOMAIN entities /\ p[3] \in DOMAIN entities
    THEN LET attr == ImpGetAttribute(entities[p[1]], p[2])
         IN  [entities EXCEPT ![p[1]].relationships =
                Append(@, [kind |-> "reference", ref_name |-> p[2], refs_to |-> p[3],
                           cardinality |-> "&",
                           is_optional |-> IF attr = <<>> THEN TRUE ELSE attr[1].is_optional])]
    ELSE entities

\* Database.add_entity_type on the dict of entities.
PutEntity(entities, e) ==
    [n \in DOMAIN entities \cup {e.name} |-> IF n = e.name THEN e ELSE entities[n]]

ImportInit ==
    /\ ddl_tables \in Schemas
    /\ imp_pc = "parse"
    /\ table_pos = 1
    /\ imp_entity_types = [n \in {} |-> Idle]
    /\ pending_references = <<>>
    /\ pending_pos = 1
    \* the other machines are not running
    /\ SortIdle /\ SchemaIdle /\ EngineIdle /\ RegistryIdle /\ TypeIdle /\ LoadIdle /\ DocIdle /\ ExportIdle /\ CardIdle /\ TypeNameIdle /\ SplitIdle /\ ExecIdle /\ JsonExportIdle

\* A one-pass import: each table's references are resolved as soon as the
\* table is parsed, against the entities created so far.
RECURSIVE ResolveAll(_, _, _)
ResolveAll(entities, pending, i) ==
    IF i > Len(pending) THEN entities
    ELSE ResolveAll(ResolveReference(entities, pending[i]), pending, i + 1)

ImportParseTableOnePass ==
    /\ imp_pc = "parse"
    /\ table_pos <= Len(ddl_tables)
    /\ LET r == ParseTable(ddl_tables[table_pos].table_name, ddl_tables[table_pos].table_body)
       IN  imp_entity_types' = ResolveAll(PutEntity(imp_entity_types, r.entity), r.pending, 1)
    /\ table_pos' = table_pos + 1
    /\ UNCHANGED <<ddl_tables, imp_pc, pending_pos, pending_references>>
    /\ UNCHANGED otherThanImport

\* parse, one turn of "for table_name, table_body in tables".
ImportParseTable ==
    /\ imp_pc = "parse"
    /\ table_pos <= Len(ddl_tables)
    /\ LET r == ParseTable(ddl_tables[table_pos].table_name, ddl_tables[table_pos].table_body)
       IN  /\ imp_entity_types' = PutEntity(imp_entity_types, r.entity)
           /\ pending_references' = pending_references \o r.pending
    /\ table_pos' = table_pos + 1
    /\ UNCHANGED <<ddl_tables, imp_pc, pending_pos>>
    /\ UNCHANGED otherThanImport

\* parse, after the loop: the call of _resolve_references.
ImportCallResolve ==
    /\ imp_pc = "parse"
    /\ table_pos > Len(ddl_tables)
    /\ imp_pc' = "resolve"
    /\ UNCHANGED <<ddl_tables, table_pos, imp_entity_types, pending_references, pending_pos>>
    /\ UNCHANGED otherThanImport

\* _resolve_references, one turn of its loop.
ImportResolveReference ==
    /\ imp_pc = "resolve"
    /\ pending_pos <= Len(pending_references)
    /\ imp_entity_types' = ResolveReference(imp_entity_types, pending_references[pending_pos])
    /\ pending_pos' = pending_pos + 1
    /\ UNCHANGED <<ddl_tables, imp_pc, table_pos, pending_references>>
    /\ UNCHANGED otherThanImport

\* parse returns self.database.
ImportReturn ==
    /\ imp_pc = "resolve"
    /\ pending_pos > Len(pending_references)
    /\ imp_pc' = "done"
    /\ UNCHANGED <<ddl_tables, table_pos, imp_entity_types, pending_references, pending_pos>>
    /\ UNCHANGED otherThanImport

ImportNext ==
    \/ ImportParseTable
    \/ ImportCallResolve
    \/ ImportResolveReference
    \/ ImportReturn

ImportSpec == ImportInit /\ [][ImportNext]_vars

(***************************************************************************)
(* Claims about the relational import.                                     *)
(***************************************************************************)

\* The References of the imported model, each with its owner.
ImportedReferences ==
    UNION {{[owner |-> n, ref_name |-> r.ref_name, refs_to |-> r.refs_to,
             is_optional |-> r.is_optional] : r \in Range(imp_entity_types[n].relationships)} :
           n \in DOMAIN imp_entity_types}

DeclaredNames == {Lower(t.table_name) : t \in Range(ddl_tables)}

\* The first column of a table body whose name is `name` in lower case.
FirstColumnNamed(body, name) ==
    LET hits == SelectSeq(body, LAMBDA c : c.piece = "column" /\ Lower(c.name) = name)
    IN  hits[1]

\* What the schema, read as a set of tables, declares: one Reference per column
\* with a REFERENCES clause to a declared table. The order of the tables plays no part.
DeclaredReferences ==
    UNION {{[owner |-> Lower(t.table_name), ref_name |-> Lower(c.name),
             refs_to |-> Lower(c.references),
             is_optional |-> LET first == FirstColumnNamed(t.table_body, Lower(c.name))
                             IN  (~first.not_null)
                                 /\ ~(first.primary_key \/ first.type = "SERIAL")] :
              c \in {d \in Range(t.table_body) :
                        d.piece = "column" /\ d.references # NoRef
                        /\ Lower(d.references) \in DeclaredNames}} :
           t \in Range(ddl_tables)}

SchemaEntityOrder == <<"person", "address">>
SchemaEntityNames == Range(SchemaEntityOrder)

\* The values of the enum KeyType, and the kinds of key a client constructs.
KeyTypeValues == {"PRIMARY", "UNIQUE", "FOREIGN", "PARTITION", "CLUSTERING"}
KeyTypes == {"PRIMARY", "UNIQUE"}
CardinalitySymbols == {"?", "&", "*", "+"}

\* The values of the enums PrimitiveType and DatabaseType.
PrimitiveTypeValues ==
    {"string", "text", "integer", "long", "double", "float", "decimal", "boolean",
     "date", "datetime", "timestamp", "uuid", "binary", "null", "objectId", "int32",
     "int64", "decimal128"}
DatabaseTypes == {"relational", "document", "graph", "columnar"}

\* _TYPE_MAPS: paradigm -> primitive kind -> native spelling.
TypeMaps ==
    [relational |->
        [string |-> "VARCHAR(255)", text |-> "TEXT", integer |-> "INTEGER", long |-> "BIGINT",
         double |-> "DOUBLE PRECISION", float |-> "REAL", decimal |-> "DECIMAL",
         boolean |-> "BOOLEAN", date |-> "DATE", datetime |-> "TIMESTAMP",
         timestamp |-> "TIMESTAMP", uuid |-> "UUID", binary |-> "BYTEA", null |-> "NULL",
         objectId |-> "VARCHAR(24)", int32 |-> "INTEGER", int64 |-> "BIGINT",
         decimal128 |-> "DECIMAL"],
     document |->
        [string |-> "string", text |-> "string", integer |-> "int", long |-> "long",
         double |-> "double", float |-> "double", decimal |-> "decimal", boolean |-> "bool",
         date |-> "date", datetime |-> "date", timestamp |-> "timestamp", uuid |-> "binData",
         binary |-> "binData", null |-> "null", objectId |-> "objectId", int32 |-> "int",
         int64 |-> "long", decimal128 |-> "decimal"],
     graph |->
        [string |-> "String", text |-> "String", integer |-> "Integer", long |-> "Long",
         double |-> "Double", float |-> "Float", decimal |-> "Double", boolean |-> "Boolean",
         date |-> "Date", datetime |-> "DateTime", timestamp |-> "DateTime", uuid |-> "String",
         binary |-> "ByteArray", null |-> "null", objectId |-> "String", int32 |-> "Integer",
         int64 |-> "Long", decimal128 |-> "Double"],
     columnar |->
        [string |-> "text", text |-> "text", integer |-> "int", long |-> "bigint",
         double |-> "double", float |-> "float", decimal |-> "decimal", boolean |-> "boolean",
         date |-> "date", datetime |-> "timestamp", timestamp |-> "timestamp", uuid |-> "uuid",
         binary |-> "blob", null |-> "text", objectId |-> "text", int32 |-> "int",
         int64 |-> "bigint", decimal128 |-> "decimal"]]

\* What a failed dict lookup gives instead of a spelling.
KeyError == "<KeyError>"

\* A lookup that misses one combination.
GetNativeTypeWithoutGraphDecimal128(ptype, db) ==
    IF ptype = "decimal128" /\ db = "graph" THEN KeyError ELSE TypeMaps[db][ptype]

\* _get_native_type: _TYPE_MAPS[db][ptype]
GetNativeType(ptype, db) ==
    IF db \in DOMAIN TypeMaps /\ ptype \in DOMAIN TypeMaps[db] THEN TypeMaps[db][ptype]
    ELSE KeyError

\* The collection DataType classes; `kind` stands for the class of the object.
ListDataType(element_type) == [kind |-> "list", element_type |-> element_type]
SetDataType(element_type) == [kind |-> "set", element_type |-> element_type]
MapDataType(key_type, value_type) ==
    [kind |-> "map", key_type |-> key_type, value_type |-> value_type]

\* Python truthiness of an Optional[int]: None and 0 are false.
Truthy(v) == v # <<>> /\ v # <<0>>

\* DataType.to_native(db).  A KeyError raised while a part is spelled propagates.
RECURSIVE ToNative(_, _)
ToNative(dt, db) ==
    CASE dt.kind = "primitive" ->
           LET base == GetNativeType(dt.primitive_type, db)
           IN  IF base = KeyError THEN KeyError
               ELSE IF db = "relational" /\ dt.primitive_type = "string" /\ Truthy(dt.max_length)
               THEN "VARCHAR(" \o ToString(dt.max_length[1]) \o ")"
               ELSE IF db = "relational" /\ dt.primitive_type = "decimal" /\ Truthy(dt.precision)
               THEN "DECIMAL(" \o ToString(dt.precision[1]) \o ","
                      \o ToString(IF Truthy(dt.scale) THEN dt.scale[1] ELSE 0) \o ")"
               ELSE base
      [] dt.kind = "list" ->
           \* the dict m is built whole: the element is spelled for every paradigm
           LET el == ToNative(dt.element_type, db)
           IN  IF el = KeyError THEN KeyError
               ELSE CASE db = "relational" -> el \o "[]"
                      [] db = "document" -> "array"
                      [] db = "graph" -> "List<" \o el \o ">"
                      [] db = "columnar" -> "list<" \o el \o ">"
                      [] OTHER -> "array"
      [] dt.kind = "set" ->
           IF db \in {"columnar", "relational"}
           THEN LET el == ToNative(dt.element_type, db)
                IN  IF el = KeyError THEN KeyError
                    ELSE IF db = "columnar" THEN "set<" \o el \o ">" ELSE el \o "[]"
           ELSE "array"
      [] dt.kind = "map" ->
           IF db = "columnar"
           THEN LET k == ToNative(dt.key_type, db)
                    v == ToNative(dt.value_type, db)
                IN  IF k = KeyError \/ v = KeyError THEN KeyError
                    ELSE "map<" \o k \o ", " \o v \o ">"
           ELSE CASE db = "relational" -> "JSONB"
                  [] db = "document" -> "object"
                  [] db = "graph" -> "Map"
                  [] OTHER -> "JSONB"

\* Attribute(attr_name, data_type, is_key=False, is_optional=True)
Attribute(attr_name, data_type, is_key, is_optional) ==
    [attr_name |-> attr_name, data_type |-> data_type, is_key |-> is_key,
     is_optional |-> is_optional]

\* The Attribute constructions a client performs.
AttributeSamples ==
    {Attribute("id", PrimitiveDataType("integer", <<>>, <<>>, <<>>), TRUE, FALSE),
     Attribute("id", PrimitiveDataType("integer", <<>>, <<>>, <<>>), FALSE, TRUE),
     Attribute("name", PrimitiveDataType("string", <<255>>, <<>>, <<>>), FALSE, TRUE),
     Attribute("name", PrimitiveDataType("string", <<0>>, <<>>, <<>>), FALSE, FALSE)}

\* The Reference and Aggregate constructions a client performs.
RelationshipSamples ==
    {[kind |-> "reference", ref_name |-> "address_id", refs_to |-> "address",
      cardinality |-> "&", is_optional |-> FALSE],
     [kind |-> "aggregate", aggr_name |-> "tags", aggregates |-> "tag",
      cardinality |-> "*", is_optional |-> TRUE]}

\* The most Attribute objects alive, and the most Keys and relationships the
\* entities of the Database hold in all.
MaxAttrs == 2
MaxKeys == 2
MaxRelationships == 1

\* EntityType(en_name)
EntityType(en_name) ==
    [en_name |-> en_name, keys |-> <<>>, attributes |-> <<>>, relationships |-> <<>>]

\* The position of the first TRUE in a sequence of booleans, or 0.
FirstIndex(hits) ==
    IF \E i \in 1..Len(hits) : hits[i]
    THEN CHOOSE i \in 1..Len(hits) : hits[i] /\ \A j \in 1..(i - 1) : ~hits[j]
    ELSE 0

RemoveAt(s, i) == [j \in 1..(Len(s) - 1) |-> IF j < i THEN s[j] ELSE s[j + 1]]

RECURSIVE Sum(_, _)
Sum(s, i) == IF i > Len(s) THEN 0 ELSE s[i] + Sum(s, i + 1)

\* The Keys and the relationships of the entities registered in the Database.
CountKeys ==
    Sum([i \in 1..Len(SchemaEntityOrder) |->
            IF SchemaEntityOrder[i] \in DOMAIN entity_types
            THEN Len(entity_types[SchemaEntityOrder[i]].keys) ELSE 0], 1)

CountRelationships ==
    Sum([i \in 1..Len(SchemaEntityOrder) |->
            IF SchemaEntityOrder[i] \in DOMAIN entity_types
            THEN Len(entity_types[SchemaEntityOrder[i]].relationships) ELSE 0], 1)

SchemaInit ==
    /\ attr_objects = <<>>
    /\ entity_types = [n \in {} |-> Idle]
    \* the other machines are not running
    /\ SortIdle /\ ImportIdle /\ EngineIdle /\ RegistryIdle /\ TypeIdle /\ LoadIdle /\ DocIdle /\ ExportIdle /\ CardIdle /\ TypeNameIdle /\ SplitIdle /\ ExecIdle /\ JsonExportIdle

\* db.add_entity_type(EntityType(n))
AddEntityType(n) ==
    /\ entity_types' = [m \in DOMAIN entity_types \cup {n} |->
                           IF m = n THEN EntityType(n) ELSE entity_types[m]]
    /\ UNCHANGED attr_objects
    /\ UNCHANGED otherThanSchema

\* db.remove_entity_type(n)
RemoveEntityType(n) ==
    /\ n \in DOMAIN entity_types
    /\ entity_types' = [m \in DOMAIN entity_types \ {n} |-> entity_types[m]]
    /\ UNCHANGED attr_objects
    /\ UNCHANGED otherThanSchema

\* db.get_entity_type(n).add_attribute(a), a newly constructed
AddAttribute(n, a) ==
    /\ n \in DOMAIN entity_types
    /\ Len(attr_objects) < MaxAttrs
    /\ attr_objects' = Append(attr_objects, a)
    /\ entity_types' = [entity_types EXCEPT ![n].attributes = Append(@, Len(attr_objects) + 1)]
    /\ UNCHANGED otherThanSchema

\* db.get_entity_type(n).remove_attribute(name)
RemoveAttribute(n, name) ==
    /\ n \in DOMAIN entity_types
    /\ LET attrs == entity_types[n].attributes
           i == FirstIndex([j \in 1..Len(attrs) |-> attr_objects[attrs[j]].attr_name = name])
       IN  /\ i # 0
           /\ entity_types' = [entity_types EXCEPT ![n].attributes = RemoveAt(attrs, i)]
    /\ UNCHANGED attr_objects
    /\ UNCHANGED otherThanSchema

\* db.get_entity_type(n).add_key(Key(key_type))
AddKey(n, key_type) ==
    /\ n \in DOMAIN entity_types
    /\ CountKeys < MaxKeys
    /\ entity_types' = [entity_types EXCEPT ![n].keys =
                           Append(@, [key_type |-> key_type, key_attributes |-> <<>>,
                                      is_managed |-> TRUE])]
    /\ UNCHANGED attr_objects
    /\ UNCHANGED otherThanSchema

\* Key.add_attribute(attr) on key i of entity n, attr one of the entity's attributes.
KeyAddAttribute(n, i, id) ==
    /\ n \in DOMAIN entity_types
    /\ i \in 1..Len(entity_types[n].keys)
    /\ id \in Range(entity_types[n].attributes)
    /\ attr_objects' = [attr_objects EXCEPT ![id].is_key = TRUE]
    /\ entity_types' = [entity_types EXCEPT ![n].keys[i].key_attributes =
                           IF id \in Range(@) THEN @ ELSE Append(@, id)]
    /\ UNCHANGED otherThanSchema

\* db.get_entity_type(n).add_relationship(r)
AddRelationship(n, r) ==
    /\ n \in DOMAIN entity_types
    /\ CountRelationships < MaxRelationships
    /\ entity_types' = [entity_types EXCEPT ![n].relationships = Append(@, r)]
    /\ UNCHANGED attr_objects
    /\ UNCHANGED otherThanSchema

(* to_dict *)

\* d[k] = v for an Optional[int] v that is truthy.
TruthyField(k, v) == IF Truthy(v) THEN k :> v[1] ELSE <<>>

RECURSIVE DataTypeToDict(_)
DataTypeToDict(dt) ==
    CASE dt.kind = "primitive" ->
           [kind |-> "primitive", type |-> dt.primitive_type]
             @@ TruthyField("max_length", dt.max_length)
             @@ TruthyField("precision", dt.precision) @@ TruthyField("scale", dt.scale)
      [] dt.kind \in {"list", "set"} ->
           [kind |-> dt.kind, element_type |-> DataTypeToDict(dt.element_type)]
      [] dt.kind = "map" ->
           [kind |-> "map", key_type |-> DataTypeToDict(dt.key_type),
            value_type |-> DataTypeToDict(dt.value_type)]

AttributeToDict(a) ==
    [kind |-> "attribute", attr_name |-> a.attr_name, data_type |-> DataTypeToDict(a.data_type),
     is_key |-> a.is_key, is_optional |-> a.is_optional]

KeyToDict(objects, k) ==
    [key_type |-> k.key_type,
     attributes |-> [i \in 1..Len(k.key_attributes) |-> objects[k.key_attributes[i]].attr_name],
     is_managed |-> k.is_managed]

RelationshipToDict(r) ==
    IF r.kind = "reference"
    THEN [kind |-> "reference", ref_name |-> r.ref_name, refs_to |-> r.refs_to,
          cardinality |-> r.cardinality, is_optional |-> r.is_optional]
    ELSE [kind |-> "aggregate", aggr_name |-> r.aggr_name, aggregates |-> r.aggregates,
          cardinality |-> r.cardinality, is_optional |-> r.is_optional,
          is_array |-> r.cardinality \in {"*", "+"}]

EntityToDict(objects, e) ==
    [en_name |-> e.en_name,
     keys |-> [i \in 1..Len(e.keys) |-> KeyToDict(objects, e.keys[i])],
     attributes |-> [i \in 1..Len(e.attributes) |-> AttributeToDict(objects[e.attributes[i]])],
     relationships |-> [i \in 1..Len(e.relationships) |-> RelationshipToDict(e.relationships[i])]]

\* Database.to_dict; the scalar fields db_name, db_type and version are copied as they are.
DatabaseToDict(objects, entities) ==
    [entity_types |-> [n \in DOMAIN entities |-> EntityToDict(objects, entities[n])]]

(* from_dict *)

\* dict.get(k, default); the empty dict is the empty function <<>>.
Get(data, k, default) == IF k \in DOMAIN data THEN data[k] ELSE default
\* dict.get(k) of an int field, as an Optional[int].
GetOptional(data, k) == IF k \in DOMAIN data THEN <<data[k]>> ELSE <<>>

\* _create_dtype: an Optional[DataType], <<>> for None.
RECURSIVE CreateDtype(_)
CreateDtype(data) ==
    LET kind == Get(data, "kind", "primitive")
    IN  CASE kind = "primitive" ->
               LET type == Get(data, "type", "string")
               IN  <<PrimitiveDataType(IF type \in PrimitiveTypeValues THEN type ELSE "string",
                                       GetOptional(data, "max_length"),
                                       GetOptional(data, "precision"),
                                       GetOptional(data, "scale"))>>
          [] kind \in {"list", "set"} ->
               LET el == CreateDtype(Get(data, "element_type", <<>>))
               IN  IF el = <<>> THEN <<>>
                   ELSE IF kind = "list" THEN <<ListDataType(el[1])>> ELSE <<SetDataType(el[1])>>
          [] kind = "map" ->
               LET kt == CreateDtype(Get(data, "key_type", <<>>))
                   vt == CreateDtype(Get(data, "value_type", <<>>))
               IN  IF kt # <<>> /\ vt # <<>> THEN <<MapDataType(kt[1], vt[1])>> ELSE <<>>
          [] OTHER -> <<>>

\* _create_attr, past its test of "kind": absent fields take the defaults of the code.
CreateAttr(data) ==
    LET dt == CreateDtype(Get(data, "data_type", <<>>))
    IN  Attribute(Get(data, "attr_name", ""),
                  IF dt = <<>> THEN PrimitiveDataType("string", <<>>, <<>>, <<>>) ELSE dt[1],
                  Get(data, "is_key", FALSE), Get(data, "is_optional", TRUE))

\* data.get("kind") of a record without the field.
NoKind == "<None>"

\* _create_rel: the Reference or Aggregate, or <<>> for None.  Cardinality.from_symbol
\* maps an unknown symbol to ONE_TO_ONE ("&").
CreateRel(data) ==
    LET kind   == Get(data, "kind", NoKind)
        symbol == Get(data, "cardinality", "&")
        card   == IF symbol \in CardinalitySymbols THEN symbol ELSE "&"
    IN  IF kind = "reference"
        THEN <<[kind |-> "reference", ref_name |-> Get(data, "ref_name", ""),
                refs_to |-> Get(data, "refs_to", ""), cardinality |-> card,
                is_optional |-> Get(data, "is_optional", TRUE)]>>
        ELSE IF kind \in {"aggregate", "embedded"}
        THEN <<[kind |-> "aggregate",
                aggr_name |-> Get(data, "aggr_name", Get(data, "em_name", "")),
                aggregates |-> Get(data, "aggregates", Get(data, "embeds", "")),
                cardinality |-> card, is_optional |-> Get(data, "is_optional", TRUE)]>>
        ELSE <<>>

\* The concatenation of a sequence of sequences.
RECURSIVE Concat(_, _)
Concat(seqs, i) == IF i > Len(seqs) THEN <<>> ELSE seqs[i] \o Concat(seqs, i + 1)

\* The loop of _create_key: each name is looked up with entity.get_attribute and the
\* attribute found is added with Key.add_attribute. Attributes are positions in `created`.
RECURSIVE CreateKeyAttributes(_, _, _, _)
CreateKeyAttributes(names, i, created, acc) ==
    IF i > Len(names) THEN acc
    ELSE LET j == FirstIndex([k \in 1..Len(created) |-> created[k].attr_name = names[i]])
         IN  CreateKeyAttributes(names, i + 1, created,
                                 IF j = 0 \/ j \in Range(acc) THEN acc ELSE Append(acc, j))

\* _create_key: the Key, or <<>> for None when no member attribute was found.
CreateKey(data, created) ==
    LET members  == CreateKeyAttributes(Get(data, "attributes", <<>>), 1, created, <<>>)
        key_type == Get(data, "key_type", "PRIMARY")
    IN  IF members = <<>> THEN <<>>
        ELSE <<[key_type |-> IF key_type \in KeyTypeValues THEN key_type ELSE "PRIMARY",
                key_attributes |-> members, is_managed |-> Get(data, "is_managed", TRUE)]>>

RECURSIVE CreateKeys(_, _, _)
CreateKeys(keys_data, i, created) ==
    IF i > Len(keys_data) THEN <<>>
    ELSE CreateKey(keys_data[i], created) \o CreateKeys(keys_data, i + 1, created)

\* _create_entity: the EntityType and the Attribute objects made for it; the objects
\* take the identities base + 1, base + 2, ...
CreateEntity(data, base) ==
    LET attr_data == SelectSeq(Get(data, "attributes", <<>>),
                               LAMBDA a : Get(a, "kind", NoKind) = "attribute")
        created   == [i \in 1..Len(attr_data) |-> CreateAttr(attr_data[i])]
        keys      == CreateKeys(Get(data, "keys", <<>>), 1, created)
        rel_data  == Get(data, "relationships", <<>>)
        in_key(i) == \E k \in Range(keys) : i \in Range(k.key_attributes)
    IN  [objects |-> [i \in 1..Len(created) |->
                        IF in_key(i) THEN [created[i] EXCEPT !.is_key = TRUE] ELSE created[i]],
         entity  |-> [en_name |-> Get(data, "en_name", ""),
                      keys |-> [i \in 1..Len(keys) |->
                                   [keys[i] EXCEPT !.key_attributes =
                                       [j \in 1..Len(@) |-> base + @[j]]]],
                      attributes |-> [i \in 1..Len(created) |-> base + i],
                      relationships |-> Concat([i \in 1..Len(rel_data) |->
                                                   CreateRel(rel_data[i])], 1)]]

\* The loop of from_dict over data["entity_types"]. The order of the loop decides the
\* identities of the new objects and nothing else.
RECURSIVE CreateEntities(_, _, _)
CreateEntities(data, i, acc) ==
    IF i > Len(SchemaEntityOrder) THEN acc
    ELSE IF SchemaEntityOrder[i] \notin DOMAIN Get(data, "entity_types", <<>>)
    THEN CreateEntities(data, i + 1, acc)
    ELSE LET c == CreateEntity(data.entity_types[SchemaEntityOrder[i]], Len(acc.objects))
         IN  CreateEntities(data, i + 1,
                [objects  |-> acc.objects \o c.objects,
                 entities |-> [m \in DOMAIN acc.entities \cup {c.entity.en_name} |->
                                  IF m = c.entity.en_name THEN c.entity ELSE acc.entities[m]]])

DatabaseFromDict(data) ==
    CreateEntities(data, 1, [objects |-> <<>>, entities |-> [n \in {} |-> Idle]])

\* db = Database.from_dict(db.to_dict()), as save_to_file followed by load_from_file does.
Reload ==
    /\ LET loaded == DatabaseFromDict(DatabaseToDict(attr_objects, entity_types))
       IN  /\ attr_objects' = loaded.objects
           /\ entity_types' = loaded.entities
    /\ UNCHANGED otherThanSchema

SchemaNext ==
    \/ \E n \in SchemaEntityNames : AddEntityType(n)
    \/ \E n \in SchemaEntityNames : RemoveEntityType(n)
    \/ \E n \in SchemaEntityNames, a \in AttributeSamples : AddAttribute(n, a)
    \/ \E n \in SchemaEntityNames, a \in AttributeSamples : RemoveAttribute(n, a.attr_name)
    \/ \E n \in SchemaEntityNames, kt \in KeyTypes : AddKey(n, kt)
    \/ \E n \in SchemaEntityNames, i \in 1..MaxKeys, id \in 1..MaxAttrs : KeyAddAttribute(n, i, id)
    \/ \E n \in SchemaEntityNames, r \in RelationshipSamples : AddRelationship(n, r)
    \/ Reload

SchemaSpec == SchemaInit /\ [][SchemaNext]_vars

(***************************************************************************)
(* Claims about the Unified Meta Schema.                                   *)
(***************************************************************************)

PrimaryKeysOf(e) == {i \in 1..Len(e.keys) : e.keys[i].key_type = "PRIMARY"}

\* C1: after any sequence of add_key calls every EntityType carries at most one
\* Key of kind PRIMARY: a second PRIMARY key is never stored.
C1_AtMostOnePrimaryKey ==
    \A n \in DOMAIN entity_types : Cardinality(PrimaryKeysOf(entity_types[n])) <= 1

\* C9: serializing, deserializing and serializing again gives the dictionary of the
\* first serialization, identifiers aside: to_dict(from_dict(to_dict(d))) = to_dict(d).
C9_ReserializationIdempotent ==
    LET data   == DatabaseToDict(attr_objects, entity_types)
        loaded == DatabaseFromDict(data)
    IN  DatabaseToDict(loaded.objects, loaded.entities) = data

(***************************************************************************)
(* TRANSFORMATION ENGINE (spec.md, sections 4.4 and 7)                     *)
(*                                                                         *)
(* The engine's code (main.SchemaTransformer, core.run_migration) is       *)
(* called by inspect_meta.py and tests/test_full_flow.py but is not part   *)
(* of the sources; the operations below follow the specification. A model  *)
(* is a value here: the entities by name, each with its attributes, keys   *)
(* and relationships, and the relationship types by name. A relationship   *)
(* names its target; an Aggregate that embeds an EntityType carries the    *)
(* attributes of that type in `embedded`.                                  *)
(***************************************************************************)

EngAttr(attr_name, is_key) == [attr_name |-> attr_name, is_key |-> is_key]

EngRel(kind, name, target, cardinality, embedded) ==
    [kind |-> kind, name |-> name, target |-> target, cardinality |-> cardinality,
     embedded |-> embedded]

EngEntity(en_name, attributes, keys, relationships) ==
    [en_name |-> en_name, attributes |-> attributes, keys |-> keys,
     relationships |-> relationships]

PrimaryKey(members, is_managed) ==
    [key_type |-> "PRIMARY", members |-> members, is_managed |-> is_managed]

\* The model the engine is given: person, address and orders, with References and
\* Aggregates to person and to address, a self-reference, a many-valued embedding and
\* one relationship type.
SourceModel ==
    [entity_types |->
        [n \in {"person", "address", "orders"} |->
            CASE n = "person" ->
                    EngEntity("person", <<EngAttr("id", TRUE), EngAttr("name", FALSE)>>,
                              <<PrimaryKey(<<"id">>, TRUE)>>,
                              <<EngRel("reference", "address_id", "address", "&", <<>>),
                                EngRel("reference", "friend_id", "person", "?", <<>>),
                                EngRel("aggregate", "tags", "tag", "*",
                                       <<EngAttr("value", TRUE)>>)>>)
              [] n = "address" ->
                    EngEntity("address", <<EngAttr("id", TRUE), EngAttr("city", FALSE)>>,
                              <<PrimaryKey(<<"id">>, TRUE)>>,
                              <<EngRel("aggregate", "resident", "person", "?", <<>>)>>)
              [] OTHER ->
                    EngEntity("orders", <<EngAttr("id", TRUE)>>,
                              <<PrimaryKey(<<"id">>, TRUE)>>,
                              <<EngRel("reference", "ship_to", "address", "&", <<>>),
                                EngRel("aggregate", "bill_to", "address", "&", <<>>)>>)],
     relationship_types |->
        [r \in {"LIVES_AT"} |-> [source_entity |-> "person", target_entity |-> "address"]]]

\* A list-valued attribute: `element` describes one element of the array, and
\* names the entity it refers to when the elements are references.
ListAttr(attr_name, element) ==
    [attr_name |-> attr_name, is_key |-> FALSE, element |-> element]

\* The imported person model of the end-to-end scenario (section 8): one entity,
\* person, that embeds address (ONE_TO_ONE), an array tags of strings and an array
\* knows of person references.
ImportedPersonModel ==
    [entity_types |->
        [n \in {"person"} |->
            EngEntity("person",
                      <<EngAttr("_id", TRUE), EngAttr("name", FALSE),
                        ListAttr("tags", EngAttr("tag", TRUE)),
                        ListAttr("knows", [attr_name |-> "knows_person_id", is_key |-> TRUE,
                                           refers_to |-> "person"])>>,
                      <<PrimaryKey(<<"_id">>, TRUE)>>,
                      <<EngRel("aggregate", "address", "address", "&",
                               <<EngAttr("street", FALSE), EngAttr("city", FALSE)>>)>>)],
     relationship_types |-> [r \in {} |-> Idle]]

\* The same model as the document adapter hands it over: the embedded address is
\* registered as an entity of the database as well (mongodb_adapter.py, 121-122).
RegisteredPersonModel ==
    [ImportedPersonModel EXCEPT !.entity_types =
        [n \in {"person", "address"} |->
            IF n = "person" THEN ImportedPersonModel.entity_types["person"]
            ELSE EngEntity("address", <<EngAttr("street", FALSE), EngAttr("city", FALSE)>>,
                           <<>>, <<>>)]]

\* The order in which the engine walks the entities.
EngineEntityOrder ==
    <<"person", "human", "address", "location", "orders", "person_tag", "person_knows">>

NoKey == "<no key>"

Op(kind, entity, name, target, generate_key) ==
    [kind |-> kind, entity |-> entity, name |-> name, target |-> target,
     generate_key |-> generate_key]

\* The operations a program is made of.
Operations ==
    {Op("RENAME_ENTITY", "address", "address", "location", NoKey),
     Op("RENAME_ENTITY", "person", "person", "human", NoKey),
     Op("DELETE_ENTITY", "address", "address", "address", NoKey),
     Op("ADD_ENTITY", "address", "address", "address", NoKey),
     Op("ADD_REFERENCE", "person", "home", "address", NoKey),
     Op("DROP_KEY", "person", "PRIMARY", "person", NoKey),
     Op("UNWIND", "person", "tags", "person_tag", NoKey),
     Op("UNWIND", "person", "tags", "person_tag", "tag_id"),
     Op("UNWIND", "person", "knows", "person_knows", NoKey),
     Op("FLATTEN", "person", "address", "address", NoKey)
        @@ [reference |-> "address_id", to |-> "person"]}

\* The most operations in a program.
MaxOps == 3

RECURSIVE Programs(_)
Programs(n) ==
    IF n = 0 THEN {<<>>}
    ELSE LET P == Programs(n - 1)
         IN  P \cup {Append(p, op) : p \in {q \in P : Len(q) = n - 1}, op \in Operations}

\* The name a child entity gives to a key attribute it takes over from its parent.
ForeignName(parent, attr_name) ==
    CASE parent = "person" /\ attr_name \in {"id", "_id"} -> "person_id"
      [] parent = "human" /\ attr_name = "id"   -> "human_id"
      [] OTHER                                  -> attr_name

HasEntity(m, n) == n \in DOMAIN m.entity_types

RelationshipNamed(e, name) == SelectSeq(e.relationships, LAMBDA r : r.name = name)

PrimaryKeysIn(e) == SelectSeq(e.keys, LAMBDA k : k.key_type = "PRIMARY")

\* The names of the key attributes of an attribute list.
RECURSIVE KeyNames(_)
KeyNames(attrs) ==
    IF attrs = <<>> THEN <<>>
    ELSE (IF Head(attrs).is_key THEN <<Head(attrs).attr_name>> ELSE <<>>) \o KeyNames(Tail(attrs))

\* The key attributes of entity e: the members of its PRIMARY key.
ParentKeyNames(e) ==
    IF PrimaryKeysIn(e) = <<>> THEN <<>> ELSE PrimaryKeysIn(e)[1].members

IsManyValued(cardinality) == cardinality \in {"*", "+"}

AttributeNamed(e, name) == SelectSeq(e.attributes, LAMBDA a : a.attr_name = name)

\* What UNWIND entity.name[] names: the Aggregate of that name or, failing that, the
\* list-valued attribute of that name seen as a many-valued embedding of its element.
\* The empty list when there is neither.
Unwound(e, name) ==
    IF RelationshipNamed(e, name) # <<>> THEN <<RelationshipNamed(e, name)[1]>>
    ELSE LET lists == SelectSeq(AttributeNamed(e, name), LAMBDA a : "element" \in DOMAIN a)
         IN  IF lists = <<>> THEN <<>>
             ELSE <<EngRel("aggregate", name, name, "*", <<lists[1].element>>)>>

\* Whether the operation can be resolved against model m (section 7, program errors).
Applicable(m, op) ==
    CASE op.kind = "RENAME_ENTITY" -> HasEntity(m, op.entity) /\ ~HasEntity(m, op.target)
      [] op.kind = "DELETE_ENTITY" -> HasEntity(m, op.entity)
      [] op.kind = "ADD_ENTITY"    -> ~HasEntity(m, op.entity)
      [] op.kind = "ADD_REFERENCE" ->
            /\ HasEntity(m, op.entity)
            /\ HasEntity(m, op.target)
            /\ RelationshipNamed(m.entity_types[op.entity], op.name) = <<>>
      [] op.kind = "DROP_KEY"      ->
            HasEntity(m, op.entity) /\ PrimaryKeysIn(m.entity_types[op.entity]) # <<>>
      [] op.kind = "FLATTEN" ->
            /\ HasEntity(m, op.entity)
            /\ ~HasEntity(m, op.target)
            /\ HasEntity(m, op.to)
            /\ LET found == RelationshipNamed(m.entity_types[op.entity], op.name)
               IN  /\ found # <<>>
                   /\ found[1].kind = "aggregate"
                   /\ ~IsManyValued(found[1].cardinality)
      [] OTHER ->  \* UNWIND
            /\ HasEntity(m, op.entity)
            /\ ~HasEntity(m, op.target)
            /\ LET found == Unwound(m.entity_types[op.entity], op.name)
               IN  /\ found # <<>>
                   /\ found[1].kind = "aggregate"
                   /\ IsManyValued(found[1].cardinality)
                   /\ (op.generate_key = NoKey =>
                         /\ ParentKeyNames(m.entity_types[op.entity]) # <<>>
                         /\ KeyNames(found[1].embedded) # <<>>)

\* RENAME ENTITY, on one relationship: a relationship names its target.
RetargetReferencesOnly(rel, old, new) ==
    IF rel.kind = "reference" /\ rel.target = old THEN [rel EXCEPT !.target = new] ELSE rel

RetargetRelationship(rel, old, new) ==
    IF rel.target = old THEN [rel EXCEPT !.target = new] ELSE rel

\* RENAME ENTITY old TO new: the entity is registered under the new name and every
\* Reference, Aggregate and RelationshipType that names the old one is rewritten.
RenameEntity(m, old, new) ==
    LET rewritten(e) ==
            [e EXCEPT !.relationships =
                [i \in 1..Len(@) |-> RetargetRelationship(@[i], old, new)]]
    IN  [entity_types |->
            [n \in (DOMAIN m.entity_types \ {old}) \cup {new} |->
                IF n = new THEN [rewritten(m.entity_types[old]) EXCEPT !.en_name = new]
                ELSE rewritten(m.entity_types[n])],
         relationship_types |->
            [r \in DOMAIN m.relationship_types |->
                [source_entity |-> IF m.relationship_types[r].source_entity = old THEN new
                                   ELSE m.relationship_types[r].source_entity,
                 target_entity |-> IF m.relationship_types[r].target_entity = old THEN new
                                   ELSE m.relationship_types[r].target_entity]]]

\* DELETE ENTITY name: the relationships the cascade removes.
IsCascadedReferenceOnly(rel, name) == rel.kind = "reference" /\ rel.target = name

IsCascaded(rel, name) == rel.target = name

Diagnostic(kind, index, op, entity, name) ==
    [kind |-> kind, index |-> index, operation |-> op.kind, entity |-> entity, name |-> name]

\* The cascade diagnostics of DELETE ENTITY, one per relationship removed, walking
\* the other entities from position i of EngineEntityOrder.
RECURSIVE CascadeDiagnostics(_, _, _, _)
CascadeDiagnostics(m, op, index, i) ==
    IF i > Len(EngineEntityOrder) THEN <<>>
    ELSE LET n == EngineEntityOrder[i]
         IN  (IF HasEntity(m, n) /\ n # op.entity
              THEN LET gone == SelectSeq(m.entity_types[n].relationships,
                                         LAMBDA r : IsCascaded(r, op.entity))
                   IN  [j \in 1..Len(gone) |-> Diagnostic("cascade", index, op, n, gone[j].name)]
              ELSE <<>>)
             \o CascadeDiagnostics(m, op, index, i + 1)

DeleteEntity(m, name) ==
    [m EXCEPT !.entity_types =
        [n \in DOMAIN m.entity_types \ {name} |->
            [m.entity_types[n] EXCEPT !.relationships =
                SelectSeq(@, LAMBDA r : ~IsCascaded(r, name))]]]

AddEntity(m, name) ==
    [m EXCEPT !.entity_types =
        [n \in DOMAIN m.entity_types \cup {name} |->
            IF n = name THEN EngEntity(name, <<>>, <<>>, <<>>) ELSE m.entity_types[n]]]

AddReference(m, entity, name, target) ==
    [m EXCEPT !.entity_types[entity].relationships =
        Append(@, EngRel("reference", name, target, "&", <<>>))]

DropKey(m, entity) ==
    [m EXCEPT !.entity_types[entity].keys = SelectSeq(@, LAMBDA k : k.key_type # "PRIMARY")]

\* UNWIND: the members of the child's PRIMARY key.
UnwindKeyMembersChildOnly(parent, aggregate, generate_key) ==
    IF generate_key # NoKey THEN <<generate_key>> ELSE KeyNames(aggregate.embedded)

UnwindKeyMembers(parent, aggregate, generate_key) ==
    IF generate_key # NoKey THEN <<generate_key>>
    ELSE [i \in 1..Len(ParentKeyNames(parent)) |->
             ForeignName(parent.en_name, ParentKeyNames(parent)[i])]
         \o KeyNames(aggregate.embedded)

\* UNWIND: no Reference for the elements of the array.
ElementReferencesNone(embedded) == <<>>

\* UNWIND: the References of the child for the elements that are references.
ElementReferences(embedded) ==
    LET refs == SelectSeq(embedded, LAMBDA a : "refers_to" \in DOMAIN a)
    IN  [i \in 1..Len(refs) |->
            EngRel("reference", refs[i].attr_name, refs[i].refers_to, "&", <<>>)]

\* FLATTEN entity.name AS alias ADD REFERENCE fk TO target: the singular embedded type
\* becomes the top-level entity alias, which holds the Reference fk.
Flatten(m, entity, name, alias, fk, target) ==
    LET parent    == m.entity_types[entity]
        aggregate == RelationshipNamed(parent, name)[1]
        keys      == KeyNames(aggregate.embedded)
        extracted == EngEntity(alias, aggregate.embedded,
                               IF keys = <<>> THEN <<>> ELSE <<PrimaryKey(keys, FALSE)>>,
                               <<EngRel("reference", fk, target, "&", <<>>)>>)
    IN  [m EXCEPT !.entity_types =
            [n \in DOMAIN m.entity_types \cup {alias} |->
                IF n = alias THEN extracted
                ELSE IF n = entity
                THEN [parent EXCEPT !.relationships = SelectSeq(@, LAMBDA r : r.name # name)]
                ELSE m.entity_types[n]]]

\* UNWIND entity.name[] AS alias [GENERATE KEY k]: the Aggregate becomes a child entity
\* with a foreign key back to the parent.
Unwind(m, entity, name, alias, generate_key) ==
    LET parent    == m.entity_types[entity]
        aggregate == Unwound(parent, name)[1]
        members   == UnwindKeyMembers(parent, aggregate, generate_key)
        foreign   == [i \in 1..Len(ParentKeyNames(parent)) |->
                         ForeignName(entity, ParentKeyNames(parent)[i])]
        plain(a)  == [a EXCEPT !.is_key = FALSE]
        own       == [i \in 1..Len(aggregate.embedded) |-> plain(aggregate.embedded[i])]
        columns   == (IF generate_key # NoKey THEN <<EngAttr(generate_key, FALSE)>> ELSE <<>>)
                     \o [i \in 1..Len(foreign) |-> EngAttr(foreign[i], FALSE)] \o own
        child     == EngEntity(alias,
                        [i \in 1..Len(columns) |->
                            [columns[i] EXCEPT !.is_key = columns[i].attr_name \in Range(members)]],
                        <<PrimaryKey(members, generate_key # NoKey)>>,
                        [i \in 1..Len(foreign) |->
                            EngRel("reference", foreign[i], entity, "&", <<>>)]
                        \o ElementReferences(aggregate.embedded))
    IN  [m EXCEPT !.entity_types =
            [n \in DOMAIN m.entity_types \cup {alias} |->
                IF n = alias THEN child
                ELSE IF n = entity
                THEN [parent EXCEPT
                        !.relationships = SelectSeq(@, LAMBDA r : r.name # name),
                        !.attributes = IF RelationshipNamed(parent, name) # <<>> THEN @
                                       ELSE SelectSeq(@, LAMBDA a : a.attr_name # name)]
                ELSE m.entity_types[n]]]

\* One operation as a function of the model: (model, operation) -> model'.
Apply(m, op) ==
    CASE op.kind = "RENAME_ENTITY" -> RenameEntity(m, op.entity, op.target)
      [] op.kind = "DELETE_ENTITY" -> DeleteEntity(m, op.entity)
      [] op.kind = "ADD_ENTITY"    -> AddEntity(m, op.entity)
      [] op.kind = "ADD_REFERENCE" -> AddReference(m, op.entity, op.name, op.target)
      [] op.kind = "DROP_KEY"      -> DropKey(m, op.entity)
      [] op.kind = "FLATTEN"       ->
            Flatten(m, op.entity, op.name, op.target, op.reference, op.to)
      [] OTHER                     -> Unwind(m, op.entity, op.name, op.target, op.generate_key)

\* The non-fatal diagnostics the operation records.
Cascades(m, op, index) ==
    IF op.kind = "DELETE_ENTITY" THEN CascadeDiagnostics(m, op, index, 1) ELSE <<>>

EngineInit ==
    /\ source_model \in {SourceModel, ImportedPersonModel, RegisteredPersonModel}
    /\ program \in Programs(MaxOps)
    /\ op_index = 0
    /\ engine_state = "RUNNING"
    /\ model = source_model
    /\ diagnostics = <<>>
    /\ applied = <<>>
    \* the other machines are not running
    /\ SortIdle /\ ImportIdle /\ SchemaIdle /\ RegistryIdle /\ TypeIdle /\ LoadIdle /\ DocIdle /\ ExportIdle /\ CardIdle /\ TypeNameIdle /\ SplitIdle /\ ExecIdle /\ JsonExportIdle

\* The engine meets an operation it cannot resolve and carries on with the next one.
EngineSkipSilently ==
    /\ engine_state = "RUNNING"
    /\ op_index < Len(program)
    /\ ~Applicable(model, program[op_index + 1])
    /\ op_index' = op_index + 1
    /\ UNCHANGED <<source_model, program, engine_state, model, diagnostics, applied>>
    /\ UNCHANGED otherThanEngine

\* The engine fails and hands back the model it was given.
EngineFailRollingBack ==
    /\ engine_state = "RUNNING"
    /\ op_index < Len(program)
    /\ ~Applicable(model, program[op_index + 1])
    /\ engine_state' = "FAILED"
    /\ model' = source_model
    /\ diagnostics' = Append(diagnostics,
                             Diagnostic("error", op_index, program[op_index + 1],
                                        program[op_index + 1].entity, program[op_index + 1].name))
    /\ UNCHANGED <<source_model, program, op_index, applied>>
    /\ UNCHANGED otherThanEngine

\* The next operation is applied to the model all earlier ones have produced.
EngineApply ==
    /\ engine_state = "RUNNING"
    /\ op_index < Len(program)
    /\ Applicable(model, program[op_index + 1])
    /\ model' = Apply(model, program[op_index + 1])
    /\ diagnostics' = diagnostics \o Cascades(model, program[op_index + 1], op_index)
    /\ applied' = Append(applied, op_index)
    /\ op_index' = op_index + 1
    /\ UNCHANGED <<source_model, program, engine_state>>
    /\ UNCHANGED otherThanEngine

\* The next operation cannot be resolved: the engine enters FAILED, fail-fast.
EngineFail ==
    /\ engine_state = "RUNNING"
    /\ op_index < Len(program)
    /\ ~Applicable(model, program[op_index + 1])
    /\ engine_state' = "FAILED"
    /\ diagnostics' = Append(diagnostics,
                             Diagnostic("error", op_index, program[op_index + 1],
                                        program[op_index + 1].entity, program[op_index + 1].name))
    /\ UNCHANGED <<source_model, program, op_index, model, applied>>
    /\ UNCHANGED otherThanEngine

EngineNext == EngineApply \/ EngineFail

EngineSpec == EngineInit /\ [][EngineNext]_vars

(***************************************************************************)
(* Claims about the transformation engine.                                 *)
(***************************************************************************)

\* The model after the first k operations of the program, each applied to the
\* result of the ones before it.
RECURSIVE ModelAfter(_)
ModelAfter(k) == IF k = 0 THEN source_model ELSE Apply(ModelAfter(k - 1), program[k])

\* The operation the engine is about to handle, and the one it applied last.
NextOp == program[op_index + 1]
LastOp == program[Len(applied)]

RelationshipsOf(m) ==
    UNION {{[owner |-> n, rel |-> r] : r \in Range(m.entity_types[n].relationships)} :
           n \in DOMAIN m.entity_types}

\* C2: the engine applies the operations strictly in program order, each on the result
\* of all earlier ones, skipping none; once FAILED it applies no further operation.
C2_StrictProgramOrder ==
    /\ [](/\ Len(applied) = op_index
          /\ \A j \in 1..Len(applied) : applied[j] = j - 1
          /\ model = ModelAfter(op_index))
    /\ [][applied' # applied =>
             /\ engine_state = "RUNNING" /\ engine_state' = "RUNNING"
             /\ applied' = Append(applied, op_index)
             /\ model' = Apply(model, NextOp)]_vars
    /\ [][engine_state = "FAILED" =>
             UNCHANGED <<engine_state, model, applied, op_index, diagnostics>>]_vars

\* A program that failed in the middle: operations were applied before the failing
\* one and operations follow it.
C2_Witness ==
    /\ engine_state = "FAILED"
    /\ op_index > 0
    /\ op_index + 1 < Len(program)

\* C3: when operation i fails, the model returned is the model after operations
\* 0..i-1: no partial effect of operation i, no rollback of the earlier ones, and
\* a diagnostic that identifies operation index i.
C3_FailureKeepsEarlierEffects ==
    engine_state = "FAILED" =>
        /\ Len(applied) = op_index
        /\ model = ModelAfter(op_index)
        /\ ~Applicable(model, NextOp)
        /\ diagnostics # <<>>
        /\ LET d == diagnostics[Len(diagnostics)]
           IN  d.kind = "error" /\ d.index = op_index /\ d.operation = NextOp.kind
        /\ Cardinality({i \in 1..Len(diagnostics) : diagnostics[i].kind = "error"}) = 1

\* A failure after operations that changed the model.
C3_Witness ==
    /\ engine_state = "FAILED"
    /\ op_index > 0
    /\ model # source_model

RenamePropagated(pre, post, old, new) ==
    /\ old \notin DOMAIN post.entity_types
    /\ new \in DOMAIN post.entity_types
    /\ post.entity_types[new].en_name = new
    /\ DOMAIN post.entity_types = (DOMAIN pre.entity_types \ {old}) \cup {new}
    /\ \A x \in RelationshipsOf(post) : x.rel.target # old
    /\ \A t \in DOMAIN post.relationship_types :
          /\ post.relationship_types[t].source_entity # old
          /\ post.relationship_types[t].target_entity # old
    /\ \A n \in DOMAIN pre.entity_types :
          LET before == pre.entity_types[n].relationships
              after  == post.entity_types[IF n = old THEN new ELSE n].relationships
          IN  /\ Len(after) = Len(before)
              /\ \A i \in 1..Len(before) :
                    after[i] = [before[i] EXCEPT !.target = IF @ = old THEN new ELSE @]
    /\ DOMAIN post.relationship_types = DOMAIN pre.relationship_types
    /\ \A t \in DOMAIN pre.relationship_types :
          LET before == pre.relationship_types[t]
              after  == post.relationship_types[t]
          IN  /\ after.source_entity = IF before.source_entity = old THEN new
                                       ELSE before.source_entity
              /\ after.target_entity = IF before.target_entity = old THEN new
                                       ELSE before.target_entity

\* C4: after RENAME ENTITY A TO A2 every Reference, Aggregate and RelationshipType that
\* named A names A2, the entity is registered under A2 only, and nothing names A.
C4_RenamePropagates ==
    [][(applied' # applied /\ NextOp.kind = "RENAME_ENTITY") =>
           RenamePropagated(model, model', NextOp.entity, NextOp.target)]_vars

\* A rename just applied to an entity that a Reference, an Aggregate and a
\* RelationshipType of other entities name.
C4_Witness ==
    /\ applied # <<>>
    /\ LastOp.kind = "RENAME_ENTITY"
    /\ \E x, y \in RelationshipsOf(model) :
          /\ x.rel.kind = "reference" /\ x.rel.target = LastOp.target /\ x.owner # LastOp.target
          /\ y.rel.kind = "aggregate" /\ y.rel.target = LastOp.target /\ y.owner # LastOp.target
    /\ \E t \in DOMAIN model.relationship_types :
          model.relationship_types[t].target_entity = LastOp.target

\* The relationships of other entities that target entity name.
IncomingRelationships(m, name) ==
    {x \in RelationshipsOf(m) : x.owner # name /\ x.rel.target = name}

DeleteCascaded(pre, post, name, before, after, index) ==
    LET recorded == SubSeq(after, Len(before) + 1, Len(after))
    IN  /\ name \notin DOMAIN post.entity_types
        /\ DOMAIN post.entity_types = DOMAIN pre.entity_types \ {name}
        /\ \A x \in RelationshipsOf(post) : x.rel.target # name
        /\ \A n \in DOMAIN post.entity_types :
              post.entity_types[n].relationships =
                 SelectSeq(pre.entity_types[n].relationships, LAMBDA r : r.target # name)
        /\ SubSeq(after, 1, Len(before)) = before
        /\ Len(recorded) =
              Sum([i \in 1..Len(EngineEntityOrder) |->
                      IF EngineEntityOrder[i] \in DOMAIN pre.entity_types \ {name}
                      THEN Len(SelectSeq(pre.entity_types[EngineEntityOrder[i]].relationships,
                                         LAMBDA r : r.target = name))
                      ELSE 0], 1)
        /\ \A x \in IncomingRelationships(pre, name) :
              \E d \in Range(recorded) :
                 d.kind = "cascade" /\ d.index = index /\ d.entity = x.owner
                 /\ d.name = x.rel.name

\* C5: DELETE ENTITY E removes every Reference and Aggregate of the other entities
\* that targets E and records one diagnostic for each; afterwards no relationship
\* names E as its target.
C5_DeleteCascades ==
    [][(applied' # applied /\ NextOp.kind = "DELETE_ENTITY") =>
           DeleteCascaded(model, model', NextOp.entity, diagnostics, diagnostics', op_index)]_vars

\* A deletion just applied that removed a Reference and an Aggregate of other entities.
C5_Witness ==
    /\ applied # <<>>
    /\ LastOp.kind = "DELETE_ENTITY"
    /\ \E x, y \in IncomingRelationships(ModelAfter(Len(applied) - 1), LastOp.entity) :
          x.rel.kind = "reference" /\ y.rel.kind = "aggregate"
    /\ Cardinality({i \in 1..Len(diagnostics) : diagnostics[i].kind = "cascade"}) >= 2

UnwoundWithCompositeKey(pre, post, op) ==
    LET parent    == pre.entity_types[op.entity]
        aggregate == Unwound(parent, op.name)[1]
        child     == post.entity_types[op.target]
        primary   == PrimaryKeysIn(child)
    IN  /\ Len(primary) = 1
        /\ Len(child.keys) = 1
        /\ Range(primary[1].members) =
              {ForeignName(op.entity, a) : a \in Range(ParentKeyNames(parent))}
              \cup Range(KeyNames(aggregate.embedded))
        /\ Cardinality(Range(primary[1].members)) >= 2
        /\ ~primary[1].is_managed
        /\ {a.attr_name : a \in {b \in Range(child.attributes) : b.is_key}}
              = Range(primary[1].members)

OwnAttributes(e) == Range(e.attributes)

\* C13: after any sequence of Attribute creations, Key.add_attribute calls and
\* deserializations, every Attribute with is_key = true has is_optional = false.
C13_KeyAttributesAreRequired ==
    \A n \in DOMAIN entity_types : \A id \in OwnAttributes(entity_types[n]) :
        attr_objects[id].is_key => ~attr_objects[id].is_optional

\* C14: after any sequence of add_attribute, remove_attribute and add_key calls,
\* every member of every Key of an entity is one of the entity's own attributes;
\* removing an attribute never leaves a key that still lists it.
C14_KeyMembersAreOwnAttributes ==
    \A n \in DOMAIN entity_types : \A k \in Range(entity_types[n].keys) :
        Range(k.key_attributes) \subseteq OwnAttributes(entity_types[n])

\* C15: after any sequence of add_attribute and remove_attribute calls no two
\* attributes of an entity have the same name.
C15_AttributeNamesUnique ==
    \A n \in DOMAIN entity_types :
        \A i, j \in 1..Len(entity_types[n].attributes) :
            attr_objects[entity_types[n].attributes[i]].attr_name
              = attr_objects[entity_types[n].attributes[j]].attr_name => i = j

\* C16: adding an entity whose name is already registered fails: the entity
\* registered under that name stays in place with its attributes, keys and
\* relationships and is never replaced by the new one.
C16_DuplicateEntityRejected ==
    [][\A n \in SchemaEntityNames :
          (n \in DOMAIN entity_types /\ AddEntityType(n)) => entity_types' = entity_types]_vars

(***************************************************************************)
(* The registries and the version counter of Database                      *)
(* (unified_meta_schema.py, 451-482).  entity_types and relationship_types *)
(* are dicts keyed by name; the machine keeps their key sets.  version is  *)
(* a Python int, unbounded; the model stops incrementing at MaxVersion.    *)
(***************************************************************************)
MaxVersion == 4
RelationshipTypeNames == {"KNOWS", "LIVES_AT"}

\* Database(db_name): version: int = 1, both dicts empty.
RegistryInit ==
    /\ version = 1
    /\ reg_entity_types = {}
    /\ relationship_types = {}
    /\ SortIdle /\ ImportIdle /\ SchemaIdle /\ EngineIdle /\ TypeIdle /\ LoadIdle /\ DocIdle /\ ExportIdle /\ CardIdle /\ TypeNameIdle /\ SplitIdle /\ ExecIdle /\ JsonExportIdle

\* add_entity_type: self.entity_types[e.en_name] = e
RegistryAddEntityType(n) ==
    /\ reg_entity_types' = reg_entity_types \cup {n}
    /\ UNCHANGED <<version, relationship_types>>
    /\ UNCHANGED otherThanRegistry

\* remove_entity_type: self.entity_types.pop(name, None)
RegistryRemoveEntityType(n) ==
    /\ reg_entity_types' = reg_entity_types \ {n}
    /\ UNCHANGED <<version, relationship_types>>
    /\ UNCHANGED otherThanRegistry

\* add_relationship_type: self.relationship_types[r.rel_name] = r
AddRelationshipType(r) ==
    /\ relationship_types' = relationship_types \cup {r}
    /\ UNCHANGED <<version, reg_entity_types>>
    /\ UNCHANGED otherThanRegistry

\* remove_relationship_type: self.relationship_types.pop(name, None)
RemoveRelationshipType(r) ==
    /\ relationship_types' = relationship_types \ {r}
    /\ UNCHANGED <<version, reg_entity_types>>
    /\ UNCHANGED otherThanRegistry

\* A counter that moves by two on every call.
IncrementVersionByTwo ==
    /\ version + 2 <= MaxVersion + 1
    /\ version' = version + 2
    /\ UNCHANGED <<reg_entity_types, relationship_types>>
    /\ UNCHANGED otherThanRegistry

\* increment_version: self.version += 1; return self.version
IncrementVersion ==
    /\ version < MaxVersion
    /\ version' = version + 1
    /\ UNCHANGED <<reg_entity_types, relationship_types>>
    /\ UNCHANGED otherThanRegistry

RegistryNext ==
    \/ \E n \in Range(EntityOrder) : RegistryAddEntityType(n) \/ RegistryRemoveEntityType(n)
    \/ \E r \in RelationshipTypeNames : AddRelationshipType(r) \/ RemoveRelationshipType(r)
    \/ IncrementVersion

RegistrySpec == RegistryInit /\ [][RegistryNext]_vars

\* C17: the version never decreases; a step that changes it is an
\* increment_version and raises it by exactly 1, touching no registry; a step
\* that adds or removes an entity or a relationship type leaves it unchanged.
C17_VersionIsACounter ==
    [][/\ version' >= version
       /\ version' # version =>
            /\ version' = version + 1
            /\ UNCHANGED <<reg_entity_types, relationship_types>>
       /\ <<reg_entity_types, relationship_types>>' # <<reg_entity_types, relationship_types>> =>
            version' = version]_vars

C17_Witness ==
    /\ version = 3
    /\ reg_entity_types = {"person", "orders"}
    /\ relationship_types = {"KNOWS"}

(***************************************************************************)
(* DataType.to_native over the data types built from the 18 primitive      *)
(* kinds (unified_meta_schema.py, 88-198).                                 *)
(***************************************************************************)
\* How deep List, Set and Map are nested around a primitive.
MaxNesting == 1

\* Each primitive kind bare, and the kinds that take parameters with them.
PrimitiveDataTypes ==
    {PrimitiveDataType(p, <<>>, <<>>, <<>>) : p \in PrimitiveTypeValues}
      \cup {PrimitiveDataType("string", <<64>>, <<>>, <<>>),
            PrimitiveDataType("decimal", <<>>, <<10>>, <<>>),
            PrimitiveDataType("decimal", <<>>, <<10>>, <<0>>),
            PrimitiveDataType("decimal", <<>>, <<10>>, <<2>>)}

\* The key types of the maps built: a map spells its key like any other part.
MapKeyTypes ==
    {PrimitiveDataType(p, <<>>, <<>>, <<>>) : p \in {"string", "uuid"}}

RECURSIVE DataTypes(_)
DataTypes(depth) ==
    IF depth = 0 THEN PrimitiveDataTypes
    ELSE LET inner == DataTypes(depth - 1)
         IN  inner \cup {ListDataType(e) : e \in inner} \cup {SetDataType(e) : e \in inner}
                   \cup {MapDataType(k, v) : k \in MapKeyTypes, v \in inner}

TypeInit ==
    /\ dtype \in DataTypes(MaxNesting)
    /\ paradigm \in DatabaseTypes
    /\ native = <<>>
    /\ SortIdle /\ ImportIdle /\ SchemaIdle /\ EngineIdle /\ RegistryIdle /\ LoadIdle /\ DocIdle /\ ExportIdle /\ CardIdle /\ TypeNameIdle /\ SplitIdle /\ ExecIdle /\ JsonExportIdle

\* native = dtype.to_native(paradigm)
TypeToNative ==
    /\ native = <<>>
    /\ native' = <<ToNative(dtype, paradigm)>>
    /\ UNCHANGED <<dtype, paradigm>>
    /\ UNCHANGED otherThanType

TypeSpec == TypeInit /\ [][TypeToNative]_vars

\* C20: to_native is total: for each of the 18 primitive kinds and each of the
\* four paradigms, and for every List, Set and Map built from them, the call
\* returns a native type spelling (no lookup fails).
C20_ToNativeTotal ==
    native # <<>> => native[1] # KeyError /\ native[1] # ""

\* A list of decimal128 values has been spelled for the graph paradigm.
C20_Witness ==
    /\ native # <<>>
    /\ paradigm = "graph"
    /\ dtype.kind = "list"
    /\ dtype.element_type.primitive_type = "decimal128"
    /\ native[1] = "List<Double>"

(***************************************************************************)
(* Database.from_dict on dictionaries that leave fields out                *)
(* (unified_meta_schema.py, 499-584).  The dictionary describes one entity *)
(* with one attribute, one key over it and one relationship; every field   *)
(* that is not a name or the member list of the key may be absent.         *)
(***************************************************************************)
\* The dictionary d without the fields in `absent`.
Without(d, absent) == [k \in DOMAIN d \ absent |-> d[k]]

AttributeRecord ==
    [kind |-> "attribute", attr_name |-> "id",
     data_type |-> [kind |-> "primitive", type |-> "integer"],
     is_key |-> FALSE, is_optional |-> FALSE]
KeyRecord == [key_type |-> "UNIQUE", attributes |-> <<"id">>, is_managed |-> FALSE]
RelationshipRecords ==
    {[kind |-> "reference", ref_name |-> "address_id", refs_to |-> "address",
      cardinality |-> "*", is_optional |-> FALSE],
     [kind |-> "aggregate", aggr_name |-> "tags", aggregates |-> "tag",
      cardinality |-> "+", is_optional |-> FALSE]}

\* The dictionaries from_dict is given.
LoadDictionaries ==
    {[db_name |-> "d",
      entity_types |->
         [person |-> [en_name |-> "person", attributes |-> <<Without(AttributeRecord, a)>>,
                      keys |-> <<Without(KeyRecord, k)>>,
                      relationships |-> <<Without(r, ra)>>]]] :
       a \in SUBSET {"kind", "data_type", "is_key", "is_optional"},
       k \in SUBSET {"key_type", "is_managed"},
       r \in RelationshipRecords, ra \in SUBSET {"cardinality", "is_optional"}}

LoadInit ==
    /\ load_data \in LoadDictionaries
    /\ load_result = <<>>
    /\ SortIdle /\ ImportIdle /\ SchemaIdle /\ EngineIdle /\ RegistryIdle /\ TypeIdle /\ DocIdle /\ ExportIdle /\ CardIdle /\ TypeNameIdle /\ SplitIdle /\ ExecIdle /\ JsonExportIdle

\* db = Database.from_dict(data)
LoadFromDict ==
    /\ load_result = <<>>
    /\ load_result' = <<DatabaseFromDict(load_data)>>
    /\ UNCHANGED load_data
    /\ UNCHANGED otherThanLoad

LoadSpec == LoadInit /\ [][LoadFromDict]_vars

\* C19: from_dict succeeds on a dictionary in which optional fields are absent
\* and fills the defaults: a relationship without a cardinality is
\* required-one ("&"), a key without a key type is PRIMARY; a field that is
\* present is kept; and no attribute, key or relationship record is dropped
\* because a field of it is missing.
C19_DefaultsFilledNothingDropped ==
    load_result # <<>> =>
        LET data   == load_data.entity_types["person"]
            entity == load_result[1].entities["person"]
        IN  /\ Len(entity.attributes) = Len(data.attributes)
            /\ Len(entity.keys) = Len(data.keys)
            /\ Len(entity.relationships) = Len(data.relationships)
            /\ \A i \in 1..Len(entity.relationships) :
                 entity.relationships[i].cardinality
                   = Get(data.relationships[i], "cardinality", "&")
            /\ \A i \in 1..Len(entity.keys) :
                 entity.keys[i].key_type = Get(data.keys[i], "key_type", "PRIMARY")

(***************************************************************************)
(* Document import: MongoDBAdapter.parse (mongodb_adapter.py, 45-201).     *)
(* A JSON Schema is a dictionary; `properties` is an ordered list of       *)
(* <<name, schema>> pairs.  The adapter is written against EntityType      *)
(* (object_name=[...]) with full_path; an entity is identified here by its *)
(* object_name, the path from the root.                                    *)
(***************************************************************************)
\* TYPE_MAP.get(bson_type, PrimitiveType.STRING), for the BSON types of the module's
\* own examples.
MongoTypeMap(bson_type) ==
    CASE bson_type = "string" -> "string"
      [] bson_type = "objectId" -> "objectId"
      [] bson_type = "int" -> "integer"
      [] OTHER -> "string"

\* prop_schema.get('bsonType') or prop_schema.get('type', 'string')
BsonTypeOf(schema) ==
    IF "bsonType" \in DOMAIN schema THEN schema.bsonType ELSE Get(schema, "type", "string")

\* _parse_primitive_type
ParsePrimitiveType(bson_type, schema) ==
    PrimitiveDataType(MongoTypeMap(bson_type), GetOptional(schema, "maxLength"), <<>>, <<>>)

\* The cardinality every embedded property would get were it always listed as required.
EmbeddedCardinalityIgnoringRequired(bson_type, is_required) ==
    IF bson_type = "object" THEN "&" ELSE "+"

\* The cardinality of an Embedded (127 and 151): ONE_TO_ONE or ZERO_TO_ONE for an
\* object, ONE_TO_MANY or ZERO_TO_MANY for an array of objects.
EmbeddedCardinality(bson_type, is_required) ==
    IF bson_type = "object"
    THEN IF is_required THEN "&" ELSE "?"
    ELSE IF is_required THEN "+" ELSE "*"

\* _parse_object_schema: the EntityType built, and the entities the call registered
\* with self.database.add_entity_type while building it, in the order of the calls.
RECURSIVE ParseObjectSchema(_, _, _)
RECURSIVE ParseProperties(_, _, _, _, _)
ParseProperties(properties, i, object_name, required, acc) ==
    IF i > Len(properties) THEN acc
    ELSE
      LET prop_name   == properties[i][1]
          prop_schema == properties[i][2]
          lower       == Lower(prop_name)
          is_required == prop_name \in required
          bson_type   == BsonTypeOf(prop_schema)
          items       == Get(prop_schema, "items", <<>>)
          embeds      == bson_type = "object" \/ (bson_type = "array" /\ BsonTypeOf(items) = "object")
          sub    == ParseObjectSchema(IF bson_type = "object" THEN prop_schema ELSE items,
                                      lower, object_name)
          is_key == prop_name = "_id"
          next ==
            IF embeds
            THEN [entity |-> [acc.entity EXCEPT !.relationships = Append(@,
                                [kind |-> "aggregate", aggr_name |-> lower,
                                 aggregates |-> sub.entity.object_name,
                                 cardinality |-> EmbeddedCardinality(bson_type, is_required),
                                 is_optional |-> ~is_required])],
                  registered |-> acc.registered \o sub.registered \o <<sub.entity>>]
            ELSE IF bson_type = "array"
            THEN [acc EXCEPT !.entity.attributes = Append(@,
                     Attribute(lower, ListDataType(ParsePrimitiveType(BsonTypeOf(items), items)),
                               FALSE, ~is_required))]
            ELSE [acc EXCEPT
                    !.entity.attributes = Append(@,
                       Attribute(lower, ParsePrimitiveType(bson_type, prop_schema), is_key,
                                 ~is_required /\ ~is_key)),
                    !.entity.constraints = IF is_key
                       THEN Append(@, [is_primary_key |-> TRUE, is_managed |-> TRUE,
                                       unique_properties |-> <<lower>>])
                       ELSE @]
      IN  ParseProperties(properties, i + 1, object_name, required, next)

ParseObjectSchema(schema, name, parent_path) ==
    LET object_name == Append(parent_path, name)
    IN  ParseProperties(Get(schema, "properties", <<>>), 1, object_name,
                        Get(schema, "required", {}),
                        [entity |-> [object_name |-> object_name, attributes |-> <<>>,
                                     relationships |-> <<>>, constraints |-> <<>>],
                         registered |-> <<>>])

\* parse: the root entity is registered after the entities found inside it.
\* entity_types maps an object_name to the entity registered last under it.
DocumentParse(schema) ==
    LET root == ParseObjectSchema(schema, Lower(Get(schema, "title", "root_document")), <<>>)
        all  == root.registered \o <<root.entity>>
    IN  [db_type |-> "document",
         entity_types |-> [p \in {all[i].object_name : i \in 1..Len(all)} |->
            all[CHOOSE i \in 1..Len(all) :
                   all[i].object_name = p /\ \A j \in (i+1)..Len(all) : all[j].object_name # p]]]

\* The properties a root document is built from, in their order in the file.
AddressSchemas ==
    {[bsonType |-> "object", properties |-> <<<<"street", [bsonType |-> "string"]>>>> \o geo] :
        geo \in {<<>>, <<<<"geo", [bsonType |-> "object",
                                   properties |-> <<<<"lat", [type |-> "number"]>>>>]>>>>}}
RootProperties(address) ==
    <<<<"_id", [bsonType |-> "objectId"]>>,
      <<"name", [bsonType |-> "string", maxLength |-> 100]>>,
      <<"address", address>>,
      <<"tags", [bsonType |-> "array", items |-> [bsonType |-> "string"]]>>,
      <<"knows", [bsonType |-> "array", items |-> [bsonType |-> "objectId"]]>>,
      <<"orders", [bsonType |-> "array",
                   items |-> [bsonType |-> "object",
                              properties |-> <<<<"item", [bsonType |-> "string"]>>>>]]>>>>
DocumentSchemas ==
    {[title |-> "person", bsonType |-> "object", required |-> required,
      properties |-> SelectSeq(RootProperties(address), LAMBDA p : p[1] \in chosen)] :
        address \in AddressSchemas,
        chosen \in SUBSET {"_id", "name", "address", "tags", "knows", "orders"},
        required \in SUBSET {"address", "orders"}}

DocInit ==
    /\ doc_schema \in DocumentSchemas
    /\ doc_database = <<>>
    /\ SortIdle /\ ImportIdle /\ SchemaIdle /\ EngineIdle /\ RegistryIdle /\ TypeIdle /\ LoadIdle /\ ExportIdle /\ CardIdle /\ TypeNameIdle /\ SplitIdle /\ ExecIdle /\ JsonExportIdle

\* database = MongoDBAdapter().parse(schema)
DocParse ==
    /\ doc_database = <<>>
    /\ doc_database' = <<DocumentParse(doc_schema)>>
    /\ UNCHANGED doc_schema
    /\ UNCHANGED otherThanDoc

DocSpec == DocInit /\ [][DocParse]_vars

\* C12: importing a document schema whose root person embeds one object
\* (address), one array of strings (tags) and one array of person references
\* (knows) yields a Database with exactly 1 entity, and that entity has exactly
\* one Aggregate (address) and no References.
C12_PersonImportsAsOneEntity ==
    (/\ doc_database # <<>>
     /\ {doc_schema.properties[i][1] : i \in 1..Len(doc_schema.properties)} \ {"_id", "name"}
          = {"address", "tags", "knows"})
    => LET db == doc_database[1]
           rels == db.entity_types[<<"person">>].relationships
       IN  /\ Cardinality(DOMAIN db.entity_types) = 1
           /\ Len(rels) = 1
           /\ rels[1].kind = "aggregate" /\ rels[1].aggr_name = "address"
           /\ \A i \in 1..Len(rels) : rels[i].kind # "reference"

(***************************************************************************)
(* Relational round trip: PostgreSQLAdapter.parse followed by              *)
(* export_to_sql (postgresql_adapter.py, 400-623).  The import is the      *)
(* machine above, started on tables whose columns carry typed spellings;   *)
(* the export describes each table by its columns: name, type spelling,    *)
(* PRIMARY KEY, NOT NULL and REFERENCES, which is the DDL up to formatting.*)
(***************************************************************************)
\* A column piece whose type has parameters: VARCHAR(100), DECIMAL(10,0).
TypedColumn(name, type, params, pk, nn, ref) ==
    ColumnPiece(name, type, pk, nn, ref) @@ ("type_params" :> params)

\* The spellings of the value column and of the key column.
ColumnTypes ==
    {<<"INTEGER", <<>>>>, <<"VARCHAR", <<Str(100)>>>>, <<"VARCHAR", <<>>>>, <<"DECIMAL", <<>>>>,
     <<"DECIMAL", <<Str(10)>>>>, <<"DECIMAL", <<Str(10), Str(0)>>>>,
     <<"DECIMAL", <<Str(10), Str(2)>>>>, <<"SERIAL", <<>>>>}
KeyColumnTypes == {<<"SERIAL", <<>>>>, <<"INTEGER", <<>>>>, <<"VARCHAR", <<Str(36)>>>>}

\* Person(ID <key type> PRIMARY KEY, name <type> [NOT NULL]) and
\* ORDERS(ID SERIAL PRIMARY KEY [, Person_Id <key type> [NOT NULL] REFERENCES PERSON(ID)]),
\* in either order; fk lists the NOT NULL flag of the REFERENCES column, if there is one.
RoundTripSchemas ==
    {[i \in 1..2 |->
        IF order[i] = "Person"
        THEN [table_name |-> "Person",
              table_body |-> <<TypedColumn("ID", kt[1], kt[2], TRUE, FALSE, NoRef),
                               TypedColumn("name", t[1], t[2], FALSE, nn, NoRef)>>]
        ELSE [table_name |-> "ORDERS",
              table_body |->
                 <<TypedColumn("ID", "SERIAL", <<>>, TRUE, FALSE, NoRef)>>
                 \o [j \in 1..Len(fk) |->
                       TypedColumn("Person_Id", IF kt[1] = "SERIAL" THEN "INTEGER" ELSE kt[1],
                                   kt[2], FALSE, fk[j], "PERSON")]]] :
       order \in {<<"Person", "ORDERS">>, <<"ORDERS", "Person">>},
       kt \in KeyColumnTypes, t \in ColumnTypes, nn \in BOOLEAN,
       fk \in {<<>>, <<FALSE>>, <<TRUE>>}}

\* REVERSE_TYPE_MAP.get(primitive, 'VARCHAR')
ReverseTypeMap(primitive) ==
    CASE primitive = "integer" -> "INTEGER"
      [] primitive = "decimal" -> "DECIMAL"
      [] primitive = "string" -> "VARCHAR"
      [] OTHER -> "VARCHAR"

\* An Optional[int] `or` a default.
OrDefault(v, default) == IF Truthy(v) THEN v[1] ELSE default

\* _get_sql_type: the type spelling, as <<name, parameters>>.
GetSqlType(attr) ==
    LET base_type == ReverseTypeMap(attr.data_type.primitive_type)
    IN  CASE base_type = "VARCHAR" ->
                <<"VARCHAR", <<Str(OrDefault(attr.data_type.max_length, 255))>>>>
          [] base_type = "DECIMAL" ->
                <<"DECIMAL", <<Str(OrDefault(attr.data_type.precision, 13)),
                               Str(OrDefault(attr.data_type.scale, 2))>>>>
          [] base_type = "INTEGER" /\ attr.is_key -> <<"SERIAL", <<>>>>
          [] OTHER -> <<base_type, <<>>>>

\* The names of the columns of the entity's primary key: get_primary_key() is the
\* first constraint with is_primary_key, its properties are looked up among the
\* attributes.
PkColumns(entity) ==
    LET pks == SelectSeq(entity.constraints, LAMBDA c : c.is_primary_key)
    IN  IF pks = <<>> THEN <<>>
        ELSE SelectSeq(pks[1].unique_properties,
                       LAMBDA property : ImpGetAttribute(entity, property) # <<>>)

\* _get_target_pk_name
GetTargetPkName(entity_name, entities) ==
    IF entity_name \in DOMAIN entities /\ PkColumns(entities[entity_name]) # <<>>
    THEN PkColumns(entities[entity_name])[1]
    ELSE entity_name \o "_id"

\* _export_attribute_to_column; fk_ref is the list of the References named like
\* the attribute (fk_refs.get: the last one, none when empty).
ExportAttributeToColumn(attr, fk_ref, entities, is_composite_pk) ==
    [name |-> attr.attr_name,
     type |-> GetSqlType(attr),
     primary_key |-> attr.is_key /\ ~is_composite_pk,
     not_null |-> ~(attr.is_key /\ ~is_composite_pk)
                    /\ (~attr.is_optional \/ (attr.is_key /\ is_composite_pk)),
     references |-> IF fk_ref = <<>> THEN <<>>
                    ELSE LET target == fk_ref[Len(fk_ref)].refs_to
                         IN  <<target, GetTargetPkName(target, entities)>>]

\* _export_entity_to_ddl
ExportEntityToDdl(entity, entities) ==
    LET is_composite_pk == Len(PkColumns(entity)) > 1
    IN  [table_name |-> entity.name,
         columns |-> [i \in 1..Len(entity.attributes) |->
            ExportAttributeToColumn(
                entity.attributes[i],
                SelectSeq(entity.relationships,
                          LAMBDA r : r.kind = "reference"
                                       /\ r.ref_name = entity.attributes[i].attr_name),
                entities, is_composite_pk)],
         primary_key |-> IF is_composite_pk THEN PkColumns(entity) ELSE <<>>]

RoundTripInit ==
    /\ ddl_tables \in RoundTripSchemas
    /\ imp_pc = "parse"
    /\ table_pos = 1
    /\ imp_entity_types = [n \in {} |-> Idle]
    /\ pending_references = <<>>
    /\ pending_pos = 1
    /\ exported_ddl = <<>>
    /\ SortIdle /\ SchemaIdle /\ EngineIdle /\ RegistryIdle /\ TypeIdle /\ LoadIdle /\ DocIdle /\ CardIdle /\ TypeNameIdle /\ SplitIdle /\ ExecIdle /\ JsonExportIdle

\* export_to_sql(database) on the database parse returned: one description per
\* entity (their order in the text is that of the dependency sort).
ExportToSql ==
    /\ imp_pc = "done"
    /\ exported_ddl = <<>>
    /\ exported_ddl' = <<[n \in DOMAIN imp_entity_types |->
                            ExportEntityToDdl(imp_entity_types[n], imp_entity_types)]>>
    /\ UNCHANGED importVars
    /\ UNCHANGED otherThanExport

RoundTripNext == ImportNext \/ ExportToSql

RoundTripSpec == RoundTripInit /\ [][RoundTripNext]_vars

\* C18: for a schema of tables with primitive-typed columns, single-column
\* primary keys and REFERENCES clauses, the export of the imported model
\* describes the same tables, the same columns with the same types (VARCHAR
\* length, DECIMAL precision and scale included), the same nullability, the
\* same keys and the same references as the input.  Identifiers are compared
\* in lower case: case is formatting.
C18_ExportOfImportIsTheInput ==
    exported_ddl # <<>> =>
        /\ DOMAIN exported_ddl[1] = {Lower(ddl_tables[i].table_name) : i \in 1..Len(ddl_tables)}
        /\ \A i \in 1..Len(ddl_tables) :
             LET input == ddl_tables[i].table_body
                 table == exported_ddl[1][Lower(ddl_tables[i].table_name)]
             IN  /\ Len(table.columns) = Len(input)
                 /\ \A j \in 1..Len(input) :
                      LET c == input[j]
                          x == table.columns[j]
                      IN  /\ x.name = Lower(c.name)
                          /\ x.type = <<c.type, c.type_params>>
                          /\ x.primary_key = c.primary_key
                          /\ (x.primary_key \/ x.not_null) = (c.primary_key \/ c.not_null)
                          /\ (x.references = <<>>) = (c.references = NoRef)
                          /\ x.references # <<>> => x.references = <<Lower(c.references), "id">>

\* The program of the end-to-end scenario of section 8.
C11_Program ==
    <<Op("UNWIND", "person", "tags", "person_tag", NoKey),
      Op("UNWIND", "person", "knows", "person_knows", NoKey),
      Op("FLATTEN", "person", "address", "address", NoKey)
         @@ [reference |-> "address_id", to |-> "person"]>>

MaxMade == 3

\* The strings handed to from_symbol: the four symbols and two that are none.
SymbolInputs == {"?", "&", "*", "+", "1", ""}

\* Cardinality.from_symbol: the member for the symbol, ONE_TO_ONE for any other string.
FromSymbol(s) ==
    CASE s = "?" -> "ZERO_TO_ONE"
      [] s = "&" -> "ONE_TO_ONE"
      [] s = "*" -> "ZERO_TO_MANY"
      [] s = "+" -> "ONE_TO_MANY"
      [] OTHER   -> "ONE_TO_ONE"

\* to_bounds with the many-valued members bounded by 1.
ToBoundsAtMostOne(c) ==
    CASE c = "ZERO_TO_ONE"  -> <<0, 1>>
      [] c = "ONE_TO_ONE"   -> <<1, 1>>
      [] c = "ZERO_TO_MANY" -> <<0, 1>>
      [] c = "ONE_TO_MANY"  -> <<1, 1>>

\* Cardinality.to_bounds: (min, max), -1 for unlimited.
ToBounds(c) ==
    CASE c = "ZERO_TO_ONE"  -> <<0, 1>>
      [] c = "ONE_TO_ONE"   -> <<1, 1>>
      [] c = "ZERO_TO_MANY" -> <<0, -1>>
      [] c = "ONE_TO_MANY"  -> <<1, -1>>

IsMultiple(c) == c \in {"ZERO_TO_MANY", "ONE_TO_MANY"}

IsRequired(c) == c \in {"ONE_TO_ONE", "ONE_TO_MANY"}

CardInit ==
    /\ rel_made = <<>>
    /\ SortIdle /\ ImportIdle /\ SchemaIdle /\ EngineIdle /\ RegistryIdle /\ TypeIdle /\ LoadIdle /\ DocIdle /\ ExportIdle /\ TypeNameIdle /\ SplitIdle /\ ExecIdle /\ JsonExportIdle

\* r = Reference(cardinality=Cardinality.from_symbol(s)), then its accessors are read.
MakeRelationship(s) ==
    /\ Len(rel_made) < MaxMade
    /\ LET c == FromSymbol(s)
       IN  rel_made' = Append(rel_made,
                [symbol |-> s, cardinality |-> c,
                 lower_bound |-> ToBounds(c)[1], upper_bound |-> ToBounds(c)[2],
                 is_multiple |-> IsMultiple(c), is_required |-> IsRequired(c)])
    /\ UNCHANGED otherThanCard

CardNext == \E s \in SymbolInputs : MakeRelationship(s)

CardSpec == CardInit /\ [][CardNext]_vars

\* C22: '?' has the bounds (0,1), '&' (1,1), '*' (0,-1) and '+' (1,-1); a
\* cardinality is multiple exactly when its upper bound is -1 and required
\* exactly when its lower bound is 1.
C22_SymbolBounds ==
    \A i \in 1..Len(rel_made) :
        LET r == rel_made[i]
            b == <<r.lower_bound, r.upper_bound>>
        IN  /\ r.symbol = "?" => b = <<0, 1>>
            /\ r.symbol = "&" => b = <<1, 1>>
            /\ r.symbol = "*" => b = <<0, -1>>
            /\ r.symbol = "+" => b = <<1, -1>>
            /\ r.is_multiple <=> r.upper_bound = -1
            /\ r.is_required <=> r.lower_bound = 1

C22_Witness ==
    /\ Len(rel_made) = 3
    /\ {rel_made[i].symbol : i \in 1..3} = {"?", "*", "+"}

(***************************************************************************)
(* Type names on their three ways into the model: a column type            *)
(* (postgresql_adapter.py, 257-342), a property type (mongodb_adapter.py,  *)
(* 168-201) and a serialized data type (unified_meta_schema.py, 539-553).  *)
(***************************************************************************)

\* Texts between the parentheses of a column type.
ColumnParams ==
    {<<>>, <<Str(3)>>, <<Str(10), Str(2)>>,
     <<<<"P", "o", "i", "n", "t">>, Str(4326)>>}

\* Type names no table of the adapters or of PrimitiveType lists.
UnmappedNames == {"GEOMETRY", "FOO", "geometry", "foo"}

\* column: `c <name>[(params)] [NOT NULL]`; property: {bsonType | type: <name>
\* [, maxLength]}; dict: a data_type dictionary, bare or as the element of a list.
NamedTypes ==
    {[route |-> "column", name |-> n,
      input |-> TypedColumn("c", n, p, FALSE, nn, NoRef)] :
        n \in {"INTEGER", "VARCHAR", "DECIMAL", "GEOMETRY", "FOO"},
        p \in ColumnParams, nn \in BOOLEAN}
    \cup
    {[route |-> "property", name |-> n,
      input |-> (IF bson THEN [bsonType |-> n] ELSE [type |-> n])
                @@ (IF len = <<>> THEN <<>> ELSE [maxLength |-> len[1]])] :
        n \in {"string", "int", "objectId", "geometry", "foo"},
        bson \in BOOLEAN, len \in {<<>>, <<100>>}}
    \cup
    {[route |-> "dict", name |-> n,
      input |-> IF listed THEN [kind |-> "list", element_type |-> [kind |-> "primitive", type |-> n]]
                ELSE IF tagged THEN [kind |-> "primitive", type |-> n]
                ELSE [type |-> n]] :
        n \in PrimitiveTypeValues \cup {"geometry", "foo"},
        listed \in BOOLEAN, tagged \in BOOLEAN}

TypeNameInit ==
    /\ named_type \in NamedTypes
    /\ parsed_type = <<>>
    /\ SortIdle /\ ImportIdle /\ SchemaIdle /\ EngineIdle /\ RegistryIdle /\ TypeIdle /\ LoadIdle /\ DocIdle /\ ExportIdle /\ CardIdle /\ SplitIdle /\ ExecIdle /\ JsonExportIdle

\* attr, ref_info = self._parse_column(col_def)
TypeOfColumn ==
    /\ named_type.route = "column" /\ parsed_type = <<>>
    /\ LET parsed == ParseColumn(named_type.input)
       IN  parsed_type' = <<IF HasRaised(parsed) THEN parsed ELSE parsed.attr.data_type>>
    /\ UNCHANGED named_type
    /\ UNCHANGED otherThanTypeName

\* data_type = self._parse_primitive_type(bson_type, prop_schema)
TypeOfProperty ==
    /\ named_type.route = "property" /\ parsed_type = <<>>
    /\ parsed_type' = <<ParsePrimitiveType(BsonTypeOf(named_type.input), named_type.input)>>
    /\ UNCHANGED named_type
    /\ UNCHANGED otherThanTypeName

\* dt = cls._create_dtype(data)
TypeOfDict ==
    /\ named_type.route = "dict" /\ parsed_type = <<>>
    /\ parsed_type' = CreateDtype(named_type.input)
    /\ UNCHANGED named_type
    /\ UNCHANGED otherThanTypeName

TypeNameNext == TypeOfColumn \/ TypeOfProperty \/ TypeOfDict

TypeNameSpec == TypeNameInit /\ [][TypeNameNext]_vars

\* The primitive type a data type comes down to: its own, or its element's.
PrimitiveOf(dt) == IF dt.kind = "primitive" THEN dt.primitive_type ELSE dt.element_type.primitive_type

\* C21: a type name that has no mapping never makes import or deserialization
\* fail: the attribute gets the generic string primitive, for an unknown
\* column type, an unknown property type and an unknown primitive type name of
\* from_dict alike.
C21_UnmappedNameGivesString ==
    (parsed_type # <<>> /\ named_type.name \in UnmappedNames)
    => /\ ~HasRaised(parsed_type[1])
       /\ PrimitiveOf(parsed_type[1]) = "string"

(***************************************************************************)
(* The dependency sort against the depth-first sort of section 4.3, which  *)
(* keeps a visiting set marked on entry and a done set marked on exit.     *)
(***************************************************************************)

\* The orders in which a set may be iterated.
Perms(S) == {s \in [1..Cardinality(S) -> S] : Range(s) = S}

\* One iteration order for the set deps of each of the first i entities.
RECURSIVE IterationOrders(_)
IterationOrders(i) ==
    IF i = 0 THEN {<<>>}
    ELSE {Append(f, p) : f \in IterationOrders(i - 1),
                         p \in Perms(dependencies[EntityOrder[i]])}

\* The depth-first sort of section 4.3: st is [visiting, done, emitted].
RECURSIVE DfsVisit(_, _, _)
RECURSIVE DfsEach(_, _, _, _)
DfsVisit(name, st, orders) ==
    IF name \in st.visiting \cup st.done THEN st
    ELSE LET entered == [st EXCEPT !.visiting = @ \cup {name}]
             inner   == DfsEach(orders[IndexOf(EntityOrder, name)], 1, entered, orders)
         IN  [visiting |-> inner.visiting \ {name},
              done     |-> inner.done \cup {name},
              emitted  |-> Append(inner.emitted, name)]
DfsEach(names, i, st, orders) ==
    IF i > Len(names) THEN st
    ELSE DfsEach(names, i + 1,
                 IF names[i] \in SortEntityNames THEN DfsVisit(names[i], st, orders) ELSE st,
                 orders)

\* The order that sort emits when the sets are iterated as `orders` says.
DfsOrder(orders) ==
    DfsEach(EntityOrder, 1, [visiting |-> {}, done |-> {}, emitted |-> <<>>], orders).emitted

\* C23: for every reference graph the order the dependency sort produces with
\* its single visited set is the order of the depth-first sort with a visiting
\* set and a done set, the sets being iterated in the same order; all along,
\* visited is the union of the entities being visited and the entities emitted.
C23_SameOrderAsVisitingDone ==
    /\ sort_pc = "loop" =>
          visited = {call_stack[i].name : i \in 1..Len(call_stack)} \cup Range(sorted_names)
    /\ sort_pc = "done" =>
          \E orders \in IterationOrders(Len(EntityOrder)) : sorted_names = DfsOrder(orders)

\* A sort of a graph with a cycle and a reference to an entity from two others.
C23_Witness ==
    /\ sort_pc = "done"
    /\ <<"person", "address">> \in RefEdges
    /\ <<"address", "person">> \in RefEdges
    /\ <<"orders", "person">> \in RefEdges

\* The References of entity n in the imported model that pending tuple p accounts for.
ReferencesFor(n, p) ==
    SelectSeq(imp_entity_types[n].relationships,
              LAMBDA r : r.kind = "reference" /\ r.ref_name = p[2] /\ r.refs_to = p[3])

\* C24: after relational import completes every Reference targets an entity of
\* the Database: a pending reference whose source or target table was never
\* declared has produced no Reference, and the pending references whose source
\* and target exist have produced one Reference each.
C24_ReferencesResolved ==
    imp_pc = "done" =>
        /\ \A n \in DOMAIN imp_entity_types :
              \A r \in Range(imp_entity_types[n].relationships) :
                 r.kind = "reference" => r.refs_to \in DOMAIN imp_entity_types
        /\ \A n \in DOMAIN imp_entity_types :
              /\ Len(imp_entity_types[n].relationships)
                   = Cardinality({i \in 1..Len(pending_references) :
                                     /\ pending_references[i][1] = n
                                     /\ pending_references[i][3] \in DOMAIN imp_entity_types})
              /\ \A i \in 1..Len(pending_references) :
                    LET p == pending_references[i]
                    IN  p[1] = n =>
                          Len(ReferencesFor(n, p))
                            = IF p[3] \in DOMAIN imp_entity_types
                              THEN Cardinality({j \in 1..Len(pending_references) :
                                                   pending_references[j] = p})
                              ELSE 0

\* A finished import with a pending reference to a declared table and one to a
\* table that was never declared.
C24_Witness ==
    /\ imp_pc = "done"
    /\ \E i, j \in 1..Len(pending_references) :
          /\ pending_references[i][3] \in DOMAIN imp_entity_types
          /\ pending_references[j][3] \notin DOMAIN imp_entity_types
          /\ Len(ReferencesFor(pending_references[i][1], pending_references[i])) = 1

(***************************************************************************)
(* _split_columns (postgresql_adapter.py, 223-255).                        *)
(***************************************************************************)

MaxBody == 5

\* The characters a table body is made of here: a letter, a blank, the comma
\* and the two parentheses.
BodyChars == {"a", " ", ",", "(", ")"}

Bodies == UNION {[1..n -> BodyChars] : n \in 0..MaxBody}

\* str.strip()
RECURSIVE Strip(_)
Strip(text) ==
    IF text = <<>> THEN text
    ELSE IF text[1] = " " THEN Strip(Tail(text))
    ELSE IF text[Len(text)] = " " THEN Strip(SubSeq(text, 1, Len(text) - 1))
    ELSE text

\* The loop "for char in body" splitting at every comma, from position i on.
RECURSIVE SplitLoopAtEveryComma(_, _, _)
SplitLoopAtEveryComma(body, i, st) ==
    IF i > Len(body) THEN st
    ELSE LET char == body[i]
         IN  SplitLoopAtEveryComma(body, i + 1,
                CASE char = "," ->
                        [result |-> Append(st.result, Strip(st.current)), current |-> <<>>,
                         depth |-> st.depth]
                  [] OTHER -> [st EXCEPT !.current = Append(@, char)])

\* The loop "for char in body", from position i on; st is [result, current, depth].
RECURSIVE SplitLoop(_, _, _)
SplitLoop(body, i, st) ==
    IF i > Len(body) THEN st
    ELSE LET char == body[i]
         IN  SplitLoop(body, i + 1,
                CASE char = "(" -> [st EXCEPT !.depth = @ + 1, !.current = Append(@, char)]
                  [] char = ")" -> [st EXCEPT !.depth = @ - 1, !.current = Append(@, char)]
                  [] char = "," /\ st.depth = 0 ->
                        [result |-> Append(st.result, Strip(st.current)), current |-> <<>>,
                         depth |-> st.depth]
                  [] OTHER -> [st EXCEPT !.current = Append(@, char)])

\* _split_columns
SplitColumns(body) ==
    LET st == SplitLoop(body, 1, [result |-> <<>>, current |-> <<>>, depth |-> 0])
    IN  IF Strip(st.current) # <<>> THEN Append(st.result, Strip(st.current)) ELSE st.result

SplitInit ==
    /\ split_body \in Bodies
    /\ split_result = <<>>
    /\ SortIdle /\ ImportIdle /\ SchemaIdle /\ EngineIdle /\ RegistryIdle /\ TypeIdle /\ LoadIdle /\ DocIdle /\ ExportIdle /\ CardIdle /\ TypeNameIdle /\ ExecIdle /\ JsonExportIdle

\* columns = self._split_columns(table_body)
SplitCall ==
    /\ split_result = <<>>
    /\ split_result' = <<SplitColumns(split_body)>>
    /\ UNCHANGED split_body
    /\ UNCHANGED otherThanSplit

SplitSpec == SplitInit /\ [][SplitCall]_vars

\* The parenthesis depth at position i: the parentheses opened before it less
\* the ones closed before it.
DepthAt(body, i) ==
    Cardinality({j \in 1..(i - 1) : body[j] = "("}) - Cardinality({j \in 1..(i - 1) : body[j] = ")"})

\* The positions of the commas at depth 0.
TopCommas(body) == {i \in 1..Len(body) : body[i] = "," /\ DepthAt(body, i) = 0}

\* The k-th stretch of the body between two commas at depth 0 (or an end).
Stretch(body, k) ==
    LET cuts  == TopCommas(body) \cup {0, Len(body) + 1}
        start == CHOOSE c \in cuts : Cardinality({d \in cuts : d < c}) = k - 1
        stop  == CHOOSE c \in cuts : Cardinality({d \in cuts : d < c}) = k
    IN  SubSeq(body, start + 1, stop - 1)

\* C25 as stated: the body is split exactly at the commas at depth 0, so the
\* pieces are the stretches between them, every such comma separating two
\* pieces, in their original order.
C25_SplitAtEveryTopComma ==
    split_result # <<>> =>
        LET pieces == split_result[1]
        IN  /\ Len(pieces) = Cardinality(TopCommas(split_body)) + 1
            /\ \A k \in 1..Len(pieces) : pieces[k] = Strip(Stretch(split_body, k))

\* C25: _split_columns splits the body at the commas at parenthesis depth 0 and
\* at no other: the pieces are the stretches between those commas, stripped, in
\* their original order, except that the stretch after the last such comma (the
\* whole body when there is none) is not a piece when it is blank.
C25_SplitAtTopCommas ==
    split_result # <<>> =>
        LET pieces == split_result[1]
            n      == Cardinality(TopCommas(split_body))
        IN  /\ Len(pieces) = IF Strip(Stretch(split_body, n + 1)) = <<>> THEN n ELSE n + 1
            /\ \A k \in 1..Len(pieces) : pieces[k] = Strip(Stretch(split_body, k))

\* "(,),a" has been split: one comma inside the parentheses, one at depth 0.
C25_Witness ==
    /\ split_body = <<"(", ",", ")", ",", "a">>
    /\ split_result = <<<<<<"(", ",", ")">>, <<"a">>>>>>

\* C26: for every entity the table that relational export describes declares a
\* primary key at most once: inline on the one key column when the PRIMARY key
\* has a single member, or as one table-level PRIMARY KEY clause listing all
\* the members when it has several, no column then carrying an inline PRIMARY
\* KEY and every member column being NOT NULL.
C26_PrimaryKeyDeclaredOnce ==
    exported_ddl # <<>> =>
        \A n \in DOMAIN exported_ddl[1] :
            LET table   == exported_ddl[1][n]
                members == PkColumns(imp_entity_types[n])
                inline  == {i \in 1..Len(table.columns) : table.columns[i].primary_key}
            IN  /\ Cardinality(inline) + (IF table.primary_key # <<>> THEN 1 ELSE 0) <= 1
                /\ Len(members) = 1 =>
                      /\ table.primary_key = <<>>
                      /\ \A i \in inline : table.columns[i].name = members[1]
                /\ Len(members) > 1 =>
                      /\ table.primary_key = members
                      /\ inline = {}
                      /\ \A i \in 1..Len(table.columns) :
                            table.columns[i].name \in Range(members) => table.columns[i].not_null

(***************************************************************************)
(* execute_smel (inspect_meta.py, 40-56).  main.parse_smel and             *)
(* main.SchemaTransformer are not part of the sources: the parser returns  *)
(* any list of operations with any list of errors, and the transformer is  *)
(* the engine of section 4.4.                                              *)
(***************************************************************************)

MaxScript == 2

ParseErrors == {<<>>, <<"line 1: mismatched input">>,
                <<"line 1: mismatched input", "line 2: missing AS">>}

\* transformer.execute(operations): the operations applied in order up to the
\* first that cannot be resolved.
RECURSIVE Execute(_, _, _)
Execute(m, operations, i) ==
    IF i > Len(operations) \/ ~Applicable(m, operations[i]) THEN m
    ELSE Execute(Apply(m, operations[i]), operations, i + 1)

ExecInit ==
    /\ exec_db \in {SourceModel, ImportedPersonModel}
    /\ exec_pc = "parse"
    /\ exec_parsed = <<>>
    /\ exec_executed = <<>>
    /\ exec_returned = <<>>
    /\ SortIdle /\ ImportIdle /\ SchemaIdle /\ EngineIdle /\ RegistryIdle /\ TypeIdle /\ LoadIdle /\ DocIdle /\ ExportIdle /\ CardIdle /\ TypeNameIdle /\ SplitIdle /\ JsonExportIdle

\* context, operations, errors = main.parse_smel(smel_path)
ExecParse ==
    /\ exec_pc = "parse"
    /\ \E operations \in Programs(MaxScript), errors \in ParseErrors :
          exec_parsed' = <<[operations |-> operations, errors |-> errors]>>
    /\ exec_pc' = "parsed"
    /\ UNCHANGED <<exec_db, exec_executed, exec_returned>>
    /\ UNCHANGED otherThanExec

\* if errors: ... return db
ExecReturnGiven ==
    /\ exec_pc = "parsed"
    /\ exec_parsed[1].errors # <<>>
    /\ exec_returned' = <<exec_db>>
    /\ exec_pc' = "returned"
    /\ UNCHANGED <<exec_db, exec_parsed, exec_executed>>
    /\ UNCHANGED otherThanExec

\* The transformer run whatever the parser reported.
ExecTransformDespiteErrors ==
    /\ exec_pc = "parsed"
    /\ LET result == Execute(exec_db, exec_parsed[1].operations, 1)
       IN  /\ exec_returned' = <<result>>
           /\ exec_db' \in {exec_db, result}
    /\ exec_executed' = <<exec_parsed[1].operations>>
    /\ exec_pc' = "returned"
    /\ UNCHANGED exec_parsed
    /\ UNCHANGED otherThanExec

\* transformer = main.SchemaTransformer(db); return transformer.execute(operations).
\* Whether the transformer works on db itself or on a copy is not fixed.
ExecTransform ==
    /\ exec_pc = "parsed"
    /\ exec_parsed[1].errors = <<>>
    /\ LET result == Execute(exec_db, exec_parsed[1].operations, 1)
       IN  /\ exec_returned' = <<result>>
           /\ exec_db' \in {exec_db, result}
    /\ exec_executed' = <<exec_parsed[1].operations>>
    /\ exec_pc' = "returned"
    /\ UNCHANGED exec_parsed
    /\ UNCHANGED otherThanExec

ExecNext == ExecParse \/ ExecReturnGiven \/ ExecTransform

ExecSpec == ExecInit /\ [][ExecNext]_vars

\* C27: when parsing the script reports at least one error, execute_smel
\* applies no operation and returns the Database it was given, with the same
\* entities, attributes, keys and relationships as before the call.
C27_ParseErrorsApplyNothing ==
    [][(exec_parsed' # <<>> /\ exec_parsed'[1].errors # <<>>)
        => /\ exec_db' = exec_db
           /\ exec_executed' = <<>>
           /\ exec_pc' = "returned" => exec_returned' = <<exec_db>>]_vars

\* execute_smel has returned after a parse that gave operations and errors.
C27_Witness ==
    /\ exec_pc = "returned"
    /\ Len(exec_parsed[1].errors) = 2
    /\ Len(exec_parsed[1].operations) = 2
    /\ Applicable(exec_db, exec_parsed[1].operations[1])
    /\ exec_returned = <<exec_db>>

(***************************************************************************)
(* DOCUMENT EXPORT: MongoDBAdapter.export_to_json (mongodb_adapter.py,     *)
(* 222-325).  The recursion of _export_entity_to_schema is kept as a stack *)
(* of open calls, one step per relationship.                               *)
(***************************************************************************)

\* The most relationships the exported database holds in all.
MaxAggregates == 2

\* The deepest nesting of calls the interpreter allows (sys.getrecursionlimit,
\* scaled down): a call beyond it raises RecursionError.
MaxDepth == 4

\* The entity names, in the insertion order of database.entity_types.
JsonNames == <<"person", "address", "geo">>

\* A relationship held by entity e: a Reference, or an Aggregate that is
\* single-valued and required ("&") or many-valued and optional ("*").
JsonEdges(present) ==
    {[owner |-> e, kind |-> k[1], target |-> t, cardinality |-> k[2]] :
        e \in present, t \in Range(JsonNames),
        k \in {<<"reference", "&">>, <<"aggregate", "&">>, <<"aggregate", "*">>}}

JsonEntity(name, edges) ==
    LET mine == {r \in edges : r.owner = name}
        rels == CHOOSE s \in Perms(mine) : TRUE
    IN  [name |-> name,
         attributes |-> <<[attr_name |-> "id", is_key |-> TRUE, is_optional |-> FALSE,
                           data_type |-> PrimitiveDataType("string", <<36>>, <<>>, <<>>)]>>,
         relationships |-> [i \in 1..Len(rels) |->
                              [kind |-> rels[i].kind,
                               aggr_name |-> IF rels[i].cardinality = "*"
                                             THEN rels[i].target \o "_list" ELSE rels[i].target,
                               aggregates |-> rels[i].target,
                               cardinality |-> rels[i].cardinality]]]

\* The databases: the first n entities, with up to MaxAggregates relationships
\* to these or to entities that are not in the database.
JsonDatabases ==
    UNION {{[name \in {JsonNames[i] : i \in 1..n} |-> JsonEntity(name, edges)] :
                edges \in SubsetsUpTo(JsonEdges({JsonNames[i] : i \in 1..n}), MaxAggregates)} :
           n \in 0..Len(JsonNames)}

\* database.entity_types.keys(), in insertion order.
JsonKeys(entities) == SelectSeq(JsonNames, LAMBDA n : n \in DOMAIN entities)

HasEmbedded(entity) == \E i \in 1..Len(entity.relationships) : entity.relationships[i].kind = "aggregate"

\* _find_root_entity
FindRootEntity(entities) ==
    LET keys     == JsonKeys(entities)
        embedded == UNION {{entities[n].relationships[i].aggregates :
                              i \in {j \in 1..Len(entities[n].relationships) :
                                        entities[n].relationships[j].kind = "aggregate"}} :
                           n \in DOMAIN entities}
        roots    == SelectSeq(keys, LAMBDA n : HasEmbedded(entities[n]) /\ n \notin embedded)
        holders  == SelectSeq(keys, LAMBDA n : HasEmbedded(entities[n]))
    IN  IF roots # <<>> THEN roots[1]
        ELSE IF holders # <<>> THEN holders[1]
        ELSE IF keys # <<>> THEN keys[1]
        ELSE Raised("StopIteration")

\* schema["properties"][name] = value
SetProperty(properties, name, value) ==
    IF \E i \in 1..Len(properties) : properties[i][1] = name
    THEN [i \in 1..Len(properties) |->
            IF properties[i][1] = name THEN <<name, value>> ELSE properties[i]]
    ELSE Append(properties, <<name, value>>)

\* REVERSE_TYPE_MAP.get(primitive, 'string')
ReverseMongoMap(primitive) ==
    CASE primitive = "objectId" -> "objectId"
      [] primitive = "integer" -> "int"
      [] OTHER -> "string"

\* _export_attribute_to_property, for a primitive or a list of primitives.
ExportAttributeToProperty(attr) ==
    IF attr.data_type.kind = "list"
    THEN [bsonType |-> "array",
          items |-> [bsonType |-> IF attr.data_type.element_type.kind = "primitive"
                                  THEN ReverseMongoMap(attr.data_type.element_type.primitive_type)
                                  ELSE "string"]]
    ELSE IF attr.data_type.kind = "primitive"
    THEN LET bson_type == ReverseMongoMap(attr.data_type.primitive_type)
         IN  [bsonType |-> bson_type]
             @@ (IF Truthy(attr.data_type.max_length) /\ bson_type = "string"
                 THEN [maxLength |-> attr.data_type.max_length[1]] ELSE <<>>)
    ELSE [bsonType |-> "string"]

\* _export_entity_to_schema up to the loop over the relationships.
RECURSIVE ExportAttributes(_, _, _, _)
ExportAttributes(attributes, i, is_root, schema) ==
    IF i > Len(attributes) THEN schema
    ELSE LET attr      == attributes[i]
             prop_name == IF is_root /\ attr.is_key /\ attr.attr_name # "_id"
                          THEN "_id" ELSE attr.attr_name
         IN  ExportAttributes(attributes, i + 1, is_root,
                [schema EXCEPT
                    !.properties = SetProperty(@, prop_name, ExportAttributeToProperty(attr)),
                    !.required = IF ~attr.is_optional THEN Append(@, prop_name) ELSE @])

\* The frame of a call of _export_entity_to_schema when it reaches the relationships.
OpenCall(entity, is_root) ==
    [entity |-> entity.name, pos |-> 1,
     schema |-> ExportAttributes(entity.attributes, 1, is_root,
                    [bsonType |-> "object", required |-> <<>>, properties |-> <<>>]
                    @@ (IF is_root THEN [title |-> entity.name] ELSE <<>>))]

\* "if not schema['required']: del schema['required']"
CleanUp(schema) ==
    IF schema.required = <<>>
    THEN [k \in DOMAIN schema \ {"required"} |-> schema[k]]
    ELSE schema

JsonExportInit ==
    /\ json_database \in JsonDatabases
    /\ json_root \in {<<>>} \cup {<<JsonNames[i]>> : i \in 1..Len(JsonNames)}
    /\ json_pc = "call"
    /\ json_stack = <<>>
    /\ json_result = <<>>
    /\ SortIdle /\ ImportIdle /\ SchemaIdle /\ EngineIdle /\ RegistryIdle /\ TypeIdle /\ LoadIdle /\ DocIdle /\ ExportIdle /\ CardIdle /\ TypeNameIdle /\ SplitIdle /\ ExecIdle

\* export_to_json up to the call of _export_entity_to_schema for the root.
JsonExportCall ==
    /\ json_pc = "call"
    /\ LET root_entity_name == IF json_root = <<>> THEN FindRootEntity(json_database)
                               ELSE json_root[1]
       IN  IF json_root = <<>> /\ JsonKeys(json_database) = <<>>
           THEN /\ json_result' = <<root_entity_name>>
                /\ json_pc' = "raised"
                /\ UNCHANGED json_stack
           ELSE IF root_entity_name \notin DOMAIN json_database
           THEN /\ json_result' = <<Raised("ValueError") @@ [names |-> root_entity_name]>>
                /\ json_pc' = "raised"
                /\ UNCHANGED json_stack
           ELSE /\ json_stack' = <<OpenCall(json_database[root_entity_name], TRUE)>>
                /\ json_pc' = "run"
                /\ UNCHANGED json_result
    /\ UNCHANGED <<json_database, json_root>>
    /\ UNCHANGED otherThanJsonExport

\* The loop over the relationships meeting an Aggregate whose target is missing
\* and reading its attributes all the same.
JsonExportRelationshipNoSkip ==
    /\ json_pc = "run"
    /\ LET n   == Len(json_stack)
           top == json_stack[n]
           rel == json_database[top.entity].relationships[top.pos]
       IN  /\ top.pos <= Len(json_database[top.entity].relationships)
           /\ IF rel.kind # "aggregate"
              THEN /\ json_stack' = [json_stack EXCEPT ![n].pos = @ + 1]
                   /\ UNCHANGED <<json_pc, json_result>>
              ELSE IF rel.aggregates \notin DOMAIN json_database
              THEN /\ json_result' = <<Raised("AttributeError")>>
                   /\ json_pc' = "raised"
                   /\ UNCHANGED json_stack
              ELSE IF n >= MaxDepth
              THEN /\ json_result' = <<Raised("RecursionError")>>
                   /\ json_pc' = "raised"
                   /\ UNCHANGED json_stack
              ELSE /\ json_stack' = Append(json_stack, OpenCall(json_database[rel.aggregates], FALSE))
                   /\ UNCHANGED <<json_pc, json_result>>
    /\ UNCHANGED <<json_database, json_root>>
    /\ UNCHANGED otherThanJsonExport

\* One turn of "for rel in entity.relationships" in the innermost call, up to
\* the recursive call it makes.
JsonExportRelationship ==
    /\ json_pc = "run"
    /\ LET n   == Len(json_stack)
           top == json_stack[n]
           rel == json_database[top.entity].relationships[top.pos]
       IN  /\ top.pos <= Len(json_database[top.entity].relationships)
           /\ IF rel.kind # "aggregate" \/ rel.aggregates \notin DOMAIN json_database
              THEN /\ json_stack' = [json_stack EXCEPT ![n].pos = @ + 1]
                   /\ UNCHANGED <<json_pc, json_result>>
              ELSE IF n >= MaxDepth
              THEN /\ json_result' = <<Raised("RecursionError")>>
                   /\ json_pc' = "raised"
                   /\ UNCHANGED json_stack
              ELSE /\ json_stack' = Append(json_stack, OpenCall(json_database[rel.aggregates], FALSE))
                   /\ UNCHANGED <<json_pc, json_result>>
    /\ UNCHANGED <<json_database, json_root>>
    /\ UNCHANGED otherThanJsonExport

\* The innermost call returns its schema; the caller files it under the name
\* of the Aggregate and moves on.
JsonExportReturn ==
    /\ json_pc = "run"
    /\ LET n      == Len(json_stack)
           top    == json_stack[n]
           schema == CleanUp(top.schema)
       IN  /\ top.pos > Len(json_database[top.entity].relationships)
           /\ IF n = 1
              THEN /\ json_result' = <<schema>>
                   /\ json_pc' = "done"
                   /\ json_stack' = <<>>
              ELSE LET caller == json_stack[n - 1]
                       rel    == json_database[caller.entity].relationships[caller.pos]
                       filed  == IF rel.cardinality \in {"+", "*"}
                                 THEN [bsonType |-> "array", items |-> schema]
                                 ELSE schema
                   IN  /\ json_stack' =
                            [SubSeq(json_stack, 1, n - 1) EXCEPT
                                ![n - 1].schema.properties = SetProperty(@, rel.aggr_name, filed),
                                ![n - 1].schema.required =
                                    IF IsRequired(FromSymbol(rel.cardinality))
                                    THEN Append(@, rel.aggr_name) ELSE @,
                                ![n - 1].pos = @ + 1]
                       /\ UNCHANGED <<json_pc, json_result>>
    /\ UNCHANGED <<json_database, json_root>>
    /\ UNCHANGED otherThanJsonExport

JsonExportNext == JsonExportCall \/ JsonExportRelationship \/ JsonExportReturn

\* The export is a sequential computation: once called it keeps running.
JsonExportSpec == JsonExportInit /\ [][JsonExportNext]_vars /\ WF_vars(JsonExportNext)

(***************************************************************************)
(* Claims about document export.                                           *)
(***************************************************************************)

\* The Aggregates of entity n whose target is an entity of the database.
LiveAggregates(n) ==
    SelectSeq(json_database[n].relationships,
              LAMBDA r : r.kind = "aggregate" /\ r.aggregates \in DOMAIN json_database)

\* The entities reached from n through such Aggregates in at most k steps, k >= 1.
RECURSIVE AggregatedWithin(_, _)
AggregatedWithin(n, k) ==
    LET direct == {LiveAggregates(n)[i].aggregates : i \in 1..Len(LiveAggregates(n))}
    IN  IF k = 1 THEN direct
        ELSE direct \cup UNION {AggregatedWithin(t, k - 1) : t \in direct}

AggregatesAcyclic ==
    \A n \in DOMAIN json_database : n \notin AggregatedWithin(n, Len(JsonNames))

\* The value filed under `name` in a schema, in a one-element list; <<>> when absent.
PropertyNamed(schema, name) ==
    LET found == SelectSeq(schema.properties, LAMBDA pr : pr[1] = name)
    IN  IF found = <<>> THEN <<>> ELSE <<found[1][2]>>

\* Whether `schema` carries, for each Aggregate of entity n, the nested schema
\* of its target when the target exists and nothing when it does not.
RECURSIVE Expanded(_, _)
Expanded(schema, n) ==
    \A i \in 1..Len(json_database[n].relationships) :
        LET rel   == json_database[n].relationships[i]
            filed == PropertyNamed(schema, rel.aggr_name)
        IN  rel.kind = "aggregate" =>
              IF rel.aggregates \in DOMAIN json_database
              THEN /\ filed # <<>>
                   /\ IF rel.cardinality \in {"*", "+"}
                      THEN filed[1].bsonType = "array" /\ Expanded(filed[1].items, rel.aggregates)
                      ELSE filed[1].bsonType = "object" /\ Expanded(filed[1], rel.aggregates)
              ELSE filed = <<>>

\* The root of the export: the one asked for, else the one _find_root_entity picks.
RootEntityName == IF json_root = <<>> THEN FindRootEntity(json_database) ELSE json_root[1]

\* C28: document export terminates for every Database whose Aggregates form no
\* cycle, raising nothing once the root is found; the schema it returns nests
\* the schema of the target under each Aggregate whose target exists, and has
\* nothing for an Aggregate whose target does not exist.
C28_ExportTerminates ==
    /\ [](json_pc = "done" => Expanded(json_result[1], RootEntityName))
    /\ AggregatesAcyclic =>
          <>(json_pc = "done" \/ (json_pc = "raised" /\ json_stack = <<>>))

\* An export that returned a schema for a root with an Aggregate nested two deep
\* or with one Aggregate to an entity of the database and one to none.
C28_Witness ==
    /\ json_pc = "done"
    /\ AggregatesAcyclic
    /\ LET root == json_database[RootEntityName]
       IN  /\ Len(LiveAggregates(root.name)) = 1
           /\ \/ Len(LiveAggregates(LiveAggregates(root.name)[1].aggregates)) = 1
              \/ \E i \in 1..Len(root.relationships) :
                    /\ root.relationships[i].kind = "aggregate"
                    /\ root.relationships[i].aggregates \notin DOMAIN json_database

\* C30: document export fails with a ValueError naming the root entity
\* whenever the root entity, given by the caller or auto-detected when none is
\* given, is not an entity of the Database, an empty Database included.
C30_MissingRootRaisesValueError ==
    (/\ json_pc # "call"
     /\ \/ json_root # <<>> /\ json_root[1] \notin DOMAIN json_database
        \/ json_root = <<>> /\ DOMAIN json_database = {})
    => /\ json_pc = "raised"
       /\ json_result[1].raised = "ValueError"
       /\ json_root # <<>> => json_result[1].names = json_root[1]


(***************************************************************************)
(* C29.  The Aggregates of a document import against the properties they   *)
(* were read from.  The cardinality symbols are read with the accessors of *)
(* Cardinality (unified_meta_schema.py, 59-81).                            *)
(***************************************************************************)
\* The object schema the entity at path was parsed from: the root schema, then one
\* property per further component, the items of the property when it is an array.
RECURSIVE SchemaAt(_, _, _)
SchemaAt(schema, path, i) ==
    IF i > Len(path) THEN schema
    ELSE LET props == Get(schema, "properties", <<>>)
             k     == CHOOSE j \in 1..Len(props) : Lower(props[j][1]) = path[i]
             prop  == props[k][2]
         IN  SchemaAt(IF BsonTypeOf(prop) = "object" THEN prop ELSE prop.items, path, i + 1)

\* The schemas of the properties of an object schema that are called name once lowered.
PropertiesCalled(schema, name) ==
    LET props == Get(schema, "properties", <<>>)
    IN  {props[j] : j \in {k \in 1..Len(props) : Lower(props[k][1]) = name}}

\* C29: every Aggregate created by document import is consistent in optionality
\* and multiplicity: is_optional is true exactly when the lower bound of its
\* cardinality is 0, which is exactly when the property is not listed as
\* required, and the cardinality is many-valued exactly when the source
\* property is an array of objects.
C29_AggregatesConsistent ==
    doc_database # <<>> =>
      \A path \in DOMAIN doc_database[1].entity_types :
        LET entity == doc_database[1].entity_types[path]
            schema == SchemaAt(doc_schema, path, 2)
        IN  \A i \in 1..Len(entity.relationships) :
              LET rel == entity.relationships[i]
                  c   == FromSymbol(rel.cardinality)
              IN  rel.kind = "aggregate" =>
                    /\ rel.is_optional <=> ToBounds(c)[1] = 0
                    /\ rel.is_optional <=> ~IsRequired(c)
                    /\ \E prop \in PropertiesCalled(schema, rel.aggr_name) :
                         /\ rel.is_optional <=> prop[1] \notin Get(schema, "required", {})
                         /\ ToBounds(c)[2] = -1 <=>
                              /\ BsonTypeOf(prop[2]) = "array"
                              /\ BsonTypeOf(Get(prop[2], "items", <<>>)) = "object"
                         /\ IsMultiple(c) <=> BsonTypeOf(prop[2]) = "array"

\* A person imported with a required array of orders and an optional address
\* that itself embeds an optional geo.
C29_Witness ==
    /\ doc_database # <<>>
    /\ doc_schema.required = {"orders"}
    /\ <<"person", "address", "geo">> \in DOMAIN doc_database[1].entity_types
    /\ LET rels == doc_database[1].entity_types[<<"person">>].relationships
       IN  /\ \E i \in 1..Len(rels) : rels[i].aggr_name = "orders" /\ rels[i].cardinality = "+"
                                      /\ ~rels[i].is_optional
           /\ \E i \in 1..Len(rels) : rels[i].aggr_name = "address" /\ rels[i].cardinality = "?"
                                      /\ rels[i].is_optional
    /\ LET rels == doc_database[1].entity_types[<<"person", "address">>].relationships
       IN  Len(rels) = 1 /\ rels[1].cardinality = "?" /\ rels[1].is_optional

====
